---- MODULE Spec2Model ----
(***************************************************************************)
(* A model of the microphone-location system: the fusion server's          *)
(* FrameStore (server/state_store.py), its receiver and liveness sweep     *)
(* (server/fusion_receiver.py), the LocalizationEngine                     *)
(* (server/localization.py), the dashboard reader (server/web/app.py),     *)
(* the packet codec (node/packets.py) and the node's FeatureExtractor      *)
(* (node/dsp.py).                                                          *)
(*                                                                         *)
(* Numbers.  The program computes in floating point; the model computes in *)
(* fixed point and says so where it does:                                  *)
(*   - wall-clock time is an integer number of seconds (clock);            *)
(*   - float fields of a Frame or Packet are integers in tenths;           *)
(*   - coordinates are integers in quarter metres (the refinement steps    *)
(*     0.5 m and 0.25 m are 2 and 1), published positions in millimetres;  *)
(*   - normalized energies are per mille, costs are in millionths.         *)
(***************************************************************************)
EXTENDS Integers, Sequences, FiniteSets, TLC

VARIABLES
    \* ---- FrameStore (server/state_store.py) ----
    nodes,          \* _nodes: node_id -> NodeState [last_frame, last_seen, online]
    fusion_state,   \* _fusion_state: a reference into heap
    heap,           \* the FusionState objects allocated so far, by reference
    clock,          \* time.time(), in seconds
    \* ---- LocalizationEngine thread (server/localization.py) ----
    eng_pc,         \* where the engine thread is in _run / _localize
    eng_frames,     \* the local `frames` snapshot of the running tick
    eng_state,      \* the local `state` / `fusion_state` reference of the tick
    last_position,  \* self.last_position
    velocity,       \* self.velocity
    \* ---- dashboard reader (server/web/app.py) ----
    rd_ref,         \* the reference the reader holds (0: none)
    rd_seen,        \* the fields the reader last serialized
    \* ---- node to server (node/packets.py, server/fusion_receiver.py) ----
    net,            \* the datagrams in flight, as bytes (at most one)
    rx,             \* what the last datagram was, what became of it, and
                    \* whether a malformed one has been dropped so far
    \* ---- node feature extraction (node/dsp.py) ----
    fe,             \* the FeatureExtractor: buffer, pending, level, last_present
    pushed,         \* the pushes so far, what the last one returned and what
                    \* it started from
    rb,             \* a RingBuffer appended to on its own: buffer, pos, filled
    ring,           \* the append calls so far, all they appended, and the
                    \* size and the cursor of the last one
    \* ---- the search on its own (server/localization.py) ----
    probe,          \* the last snapshot searched, by which engine, and what
                    \* _grid_search and _refine returned for it
    \* ---- the engine loop's clock (server/localization.py:51-62) ----
    loop,           \* _run on its own: where it is, time.time(), next_time,
                    \* the sleep computed, and the ticks so far
    \* ---- LocalizationEngine.stop (server/localization.py:48-49) ----
    stop,           \* self._stop, whether stop() has returned, and where the
                    \* engine was when it was called
    \* ---- ContinuousSampler (node/ads_sampler.py:117-151) ----
    sampler,        \* the list objects (object 1 is self._queue), self._lock,
                    \* the sampling thread and the consumer, and what
                    \* pop_blocks has returned
    \* ---- CalibrationManager (server/web/calibration_manager.py) ----
    cal,            \* self.jobs, the manager thread, and the node configs
    \* ---- a get_frames call in steps (server/state_store.py:54-56) ----
    snap,           \* the caller of get_frames, the lock, and the dict
    \* ---- history (not program state) ----
    ticks,          \* ticks the engine has started
    hist            \* what the last step did, for stating the claims

storeVars == <<nodes, fusion_state, heap, clock>>
engVars == <<eng_pc, eng_frames, eng_state, last_position, velocity, ticks>>
rdVars == <<rd_ref, rd_seen>>
netVars == <<net, rx>>
ringVars == <<rb, ring>>
dspVars == <<fe, pushed, ringVars>>
searchVars == <<probe>>
loopVars == <<loop>>
stopVars == <<stop>>
samplerVars == <<sampler>>
calVars == <<cal>>
snapVars == <<snap>>
otherVars == <<loopVars, stopVars, samplerVars, calVars, snapVars>>
vars == <<nodes, fusion_state, heap, clock, eng_pc, eng_frames, eng_state,
          last_position, velocity, rd_ref, rd_seen, net, rx, fe, pushed,
          rb, ring, probe, loop, stop, sampler, cal, snap, ticks, hist>>

(***************************************************************************)
(* Bounds of the model.                                                    *)
(***************************************************************************)
NumNodes == 2       \* node ids are 1..NumNodes
MaxSeq == 2         \* frames carry seq in 1..MaxSeq, in any order
MaxTime == 3        \* the clock runs from 0 to MaxTime
MaxTicks == 2       \* ticks the engine starts in SpecEngine
MaxBlock == 5       \* a pushed block has 0..MaxBlock samples per channel
MaxPushes == 2      \* push calls in a behaviour
MaxAppends == 4     \* append calls on the lone ring buffer in a behaviour
MaxIter == 3        \* iterations of the engine loop in SpecLoop
MaxDur == 5         \* a tick takes 0..MaxDur half periods
MaxReads == 4       \* blocks the sampling thread reads in a behaviour
MaxPops == 3        \* pop_blocks calls in a behaviour
MaxGets == 2        \* get_frames calls in SpecSnap
MaxCoord == 2       \* largest bound of a box in SpecGrid
MaxStep == 2        \* largest grid step in SpecGrid
MaxJobs == 2        \* start_job calls in SpecCal

NodeIds == 1..NumNodes

Max(a, b) == IF a >= b THEN a ELSE b
Min(a, b) == IF a <= b THEN a ELSE b

RECURSIVE SumOver(_, _)
SumOver(f, S) ==
    IF S = {} THEN 0
    ELSE LET x == CHOOSE y \in S: TRUE IN f[x] + SumOver(f, S \ {x})

(***************************************************************************)
(* Frame, NodeState, FusionState (state_store.py:9-40).                    *)
(***************************************************************************)
ZeroVec == <<0, 0, 0>>

Frame(node_id, seq, timestamp, present, mic_rms, noise_rms, crest, bandpower, dir_local, dir_conf, total_energy, extra) ==
    [node_id |-> node_id, seq |-> seq, timestamp |-> timestamp,
     present |-> present, mic_rms |-> mic_rms, noise_rms |-> noise_rms,
     crest |-> crest, bandpower |-> bandpower, dir_local |-> dir_local,
     dir_conf |-> dir_conf, total_energy |-> total_energy, extra |-> extra]

\* The frames the network may deliver to the server, as
\* (present, total_energy, dir_local); the other lists are fixed.
FrameKinds ==
    { <<FALSE, 2, ZeroVec>>, <<TRUE, 6, ZeroVec>>, <<TRUE, 6, <<1, 0, 0>>>> }

\* The two of them the store's own claims need.
PresenceKinds == { <<FALSE, 2, ZeroVec>>, <<TRUE, 6, ZeroVec>> }

InputFrame(node_id, seq, timestamp, kind) ==
    Frame(node_id, seq, timestamp, kind[1], <<kind[2]>>, <<1>>, <<10>>,
          <<0, 0>>, kind[3], IF kind[3] = ZeroVec THEN 0 ELSE 10, kind[2],
          <<>>)

NodeState(last_frame, last_seen, online) ==
    [last_frame |-> last_frame, last_seen |-> last_seen, online |-> online]

FusionState(timestamp, present, position, vel, confidence, error, node_details) ==
    [timestamp |-> timestamp, present |-> present, position |-> position,
     velocity |-> vel, confidence |-> confidence, error |-> error,
     node_details |-> node_details]

(***************************************************************************)
(* FrameStore (state_store.py:43-84).  Every method runs under self._lock, *)
(* so each is one atomic step.                                             *)
(***************************************************************************)
\* A store that drops a frame older than the stored one: not what the code
\* does, and C2_LastWriterWins tells the two apart.
update_frame_if_newer(ns, frame, now) ==
    [n \in DOMAIN ns \cup {frame.node_id} |->
        IF n = frame.node_id
        THEN IF n \in DOMAIN ns /\ ns[n].last_frame.seq > frame.seq
             THEN NodeState(ns[n].last_frame, now, TRUE)
             ELSE NodeState(frame, now, TRUE)
        ELSE ns[n]]

\* update_frame: setdefault, then the three assignments.
update_frame(ns, frame, now) ==
    [n \in DOMAIN ns \cup {frame.node_id} |->
        IF n = frame.node_id THEN NodeState(frame, now, TRUE) ELSE ns[n]]

\* A get_frames that leaves offline nodes out: not what the code does, and
\* C3_FramesOutliveLiveness tells the two apart.
get_frames_online_only(ns) ==
    [n \in {m \in DOMAIN ns: ns[m].online} |-> ns[n].last_frame]

\* get_frames: a new dict of node_id -> last_frame for the states that
\* have one (None is <<>>; a Frame is always truthy).
get_frames(ns) ==
    [n \in {m \in DOMAIN ns: ns[m].last_frame # <<>>} |-> ns[n].last_frame]

\* A sweep with >= for >: not what the code does, and C4_Liveness tells the
\* two apart.
mark_offline_inclusive(ns, now, timeout) ==
    [n \in DOMAIN ns |->
        IF now - ns[n].last_seen >= timeout
        THEN NodeState(ns[n].last_frame, ns[n].last_seen, FALSE)
        ELSE ns[n]]

\* A sweep that first registers every configured node with NodeState():
\* not what the code does, and C38_EveryEntryHasItsFrame tells the two
\* apart.
mark_offline_registering(ns, now, timeout) ==
    [n \in DOMAIN ns \cup NodeIds |->
        IF n \notin DOMAIN ns THEN NodeState(<<>>, now, FALSE)
        ELSE IF now - ns[n].last_seen > timeout
        THEN [ns[n] EXCEPT !.online = FALSE]
        ELSE ns[n]]

\* mark_offline: `now - state.last_seen > timeout` for every node.
mark_offline(ns, now, timeout) ==
    [n \in DOMAIN ns |->
        IF now - ns[n].last_seen > timeout
        THEN [ns[n] EXCEPT !.online = FALSE]
        ELSE ns[n]]

\* get_node_health
get_node_health(ns) ==
    [n \in DOMAIN ns |->
        [online |-> ns[n].online, last_seen |-> ns[n].last_seen,
         present |-> ns[n].last_frame # <<>> /\ ns[n].last_frame.present]]

\* mark_offline's default timeout, in seconds.
OfflineTimeout == 2

(***************************************************************************)
(* FusionConfig (server/config.py:22-36), instantiated for the model, in   *)
(* quarter metres.                                                         *)
(***************************************************************************)
grid_bounds == [x |-> <<0, 8>>, y |-> <<0, 4>>, z |-> <<0, 4>>]
grid_step == 4
\* config.nodes: the nodes with a configured position.
node_positions == [n \in {1, 2} |-> IF n = 1 THEN <<0, 0, 0>> ELSE <<8, 0, 0>>]
\* direction_weight = 0.3, per mille.
direction_weight == 300
\* smoothing_alpha = 0.4 and smoothing_beta = 0.2, in tenths.
smoothing_alpha == 4
smoothing_beta == 2

\* One: normalized energies are per mille, costs are in millionths.
PerMille == 1000
Million == 1000000
\* math.inf, above every cost of the model.
Inf == 2000000000

\* floor(sqrt(n))
RECURSIVE IsqrtFrom(_, _, _)
IsqrtFrom(n, lo, hi) ==
    IF lo >= hi THEN lo
    ELSE LET mid == (lo + hi + 1) \div 2
         IN IF mid * mid <= n THEN IsqrtFrom(n, mid, hi)
                              ELSE IsqrtFrom(n, lo, mid - 1)
Isqrt(n) == IsqrtFrom(n, 0, Min(n, 46340))

Sub(a, b) == <<a[1] - b[1], a[2] - b[2], a[3] - b[3]>>
Dot(a, b) == a[1] * b[1] + a[2] * b[2] + a[3] * b[3]

\* np.arange(lo, hi + step, step): lo, lo + step, ... below hi + step.
Arange(lo, hi, step) ==
    LET count == IF hi + step > lo THEN (hi + step - lo + step - 1) \div step
                 ELSE 0
    IN [k \in 1..count |-> lo + (k - 1) * step]

\* _grid_points: x outermost, y, then z innermost, each ascending.
GridPoints(bounds, step) ==
    LET xs == Arange(bounds.x[1], bounds.x[2], step)
        ys == Arange(bounds.y[1], bounds.y[2], step)
        zs == Arange(bounds.z[1], bounds.z[2], step)
        ny == Len(ys)
        nz == Len(zs)
    IN [i \in 1..(Len(xs) * ny * nz) |->
           <<xs[((i - 1) \div (ny * nz)) + 1],
             ys[(((i - 1) \div nz) % ny) + 1],
             zs[((i - 1) % nz) + 1]>>]

\* normalize_energies: val / (sum + 1e-6), per mille.  The 1e-6 decides
\* only the all-zero case, where every share is 0.
normalize_energies(energies) ==
    LET Shares(total) ==
            [n \in DOMAIN energies |->
                IF total = 0 THEN 0 ELSE (energies[n] * PerMille) \div total]
    IN Shares(SumOver(energies, DOMAIN energies))

\* LocalizationEngine.__init__: what the search reads of self and of
\* self.config.
Engine ==
    [grid_bounds |-> grid_bounds, grid_step |-> grid_step,
     node_positions |-> node_positions]

SquaredDistance(a, b) == Dot(Sub(a, b), Sub(a, b))

\* The normalized predictions of _point_error.  dist = |point - node| + 1e-6:
\* a node at distance 0 predicts 1e12 and takes the whole share.  Before
\* normalization 1 / dist^2 is scaled by 16000 (d2 is in sixteenths of a
\* square metre).
Predictions(self, point, known) ==
    LET at == {n \in known: point = self.node_positions[n]}
        InverseSquare(d2) == 16000 \div d2
    IN IF at # {}
       THEN [n \in known |-> IF n \in at THEN PerMille \div Cardinality(at) ELSE 0]
       ELSE normalize_energies(
                [n \in known |->
                    InverseSquare(SquaredDistance(point, self.node_positions[n]))])

\* The direction term of one node, in millionths:
\* direction_weight * (1 - dot), where dot is
\* dot(direction, target / (|target| + 1e-6)), per mille.
DirectionTerm(self, point, n, dir_local) ==
    LET UnitDot(direction, target, d2) ==
            IF d2 = 0 THEN 0
            ELSE (Dot(direction, target) * 100 * PerMille) \div Isqrt(d2 * 10000)
    IN direction_weight
       * (PerMille - UnitDot(dir_local, Sub(point, self.node_positions[n]),
                             SquaredDistance(point, self.node_positions[n])))

\* The energy term of _point_error: the squared differences over the frames.
EnergyTerm(predictions, frames, normalized) ==
    LET Square(x) == x * x
    IN SumOver([n \in DOMAIN frames |->
                   Square((IF n \in DOMAIN predictions THEN predictions[n] ELSE 0)
                          - normalized[n])],
               DOMAIN frames)

\* _point_error, in millionths.
_point_error(self, point, frames, normalized) ==
    EnergyTerm(Predictions(self, point,
                           DOMAIN frames \cap DOMAIN self.node_positions),
               frames, normalized)
    + SumOver([n \in DOMAIN frames \cap DOMAIN self.node_positions |->
                  IF frames[n].dir_local = ZeroVec THEN 0
                  ELSE DirectionTerm(self, point, n, frames[n].dir_local)],
              DOMAIN frames \cap DOMAIN self.node_positions)

\* A search that takes the later of two equal costs: not what the code
\* does, and C17_FirstMinimum tells the two apart.
BetterOrEqual(best, point, err) ==
    IF err <= best.err THEN [point |-> point, err |-> err] ELSE best

\* `if err < best_err`: the incumbent changes only on a strictly lower cost.
Better(best, point, err) ==
    IF err < best.err THEN [point |-> point, err |-> err] ELSE best

\* _grid_search, from candidate i on (the first test only makes the
\* evaluation take `best` before the next candidate).
RECURSIVE GridScan(_, _, _, _, _, _)
GridScan(self, points, i, frames, normalized, best) ==
    IF best.err < 0 \/ i > Len(points) THEN best
    ELSE GridScan(self, points, i + 1, frames, normalized,
                  Better(best, points[i],
                         _point_error(self, points[i], frames, normalized)))

_grid_search(self, frames, normalized) ==
    GridScan(self, GridPoints(self.grid_bounds, self.grid_step), 1, frames,
             normalized, [point |-> ZeroVec, err |-> Inf])

\* The six trials of one refinement round: (axis, sign), in the code's order.
Trials == << <<1, -1>>, <<1, 1>>, <<2, -1>>, <<2, 1>>, <<3, -1>>, <<3, 1>> >>

\* A trial that takes a candidate of equal cost too: not what the code
\* does, and C18_Refinement tells the two apart.
TrialNotWorse(self, st, candidate, frames, normalized) ==
    IF _point_error(self, candidate, frames, normalized)
       <= _point_error(self, st.point, frames, normalized)
    THEN [point |-> candidate, improved |-> TRUE,
          trace |-> Append(st.trace, [from |-> st.point, to |-> candidate,
                                      accepted |-> TRUE])]
    ELSE [st EXCEPT !.trace = Append(@, [from |-> st.point, to |-> candidate,
                                         accepted |-> FALSE])]

\* A trial that takes every candidate whose cost differs: not what the code
\* does, and C36_NeverWorse tells the two apart.
TrialAnyChange(self, st, candidate, frames, normalized) ==
    IF _point_error(self, candidate, frames, normalized)
       # _point_error(self, st.point, frames, normalized)
    THEN [point |-> candidate, improved |-> TRUE,
          trace |-> Append(st.trace, [from |-> st.point, to |-> candidate,
                                      accepted |-> TRUE])]
    ELSE [st EXCEPT !.trace = Append(@, [from |-> st.point, to |-> candidate,
                                         accepted |-> FALSE])]

\* One trial: the candidate replaces the point when its cost is strictly
\* lower than the point's, both evaluated now.  st.trace keeps the trials
\* made, for stating the claims.
Trial(self, st, candidate, frames, normalized) ==
    IF _point_error(self, candidate, frames, normalized)
       < _point_error(self, st.point, frames, normalized)
    THEN [point |-> candidate, improved |-> TRUE,
          trace |-> Append(st.trace, [from |-> st.point, to |-> candidate,
                                      accepted |-> TRUE])]
    ELSE [st EXCEPT !.trace = Append(@, [from |-> st.point, to |-> candidate,
                                         accepted |-> FALSE])]

\* One round of _refine from trial i on: [point, improved, trace].
RECURSIVE RefineTrials(_, _, _, _, _, _)
RefineTrials(self, st, i, step, frames, normalized) ==
    IF i > Len(Trials) THEN st
    ELSE RefineTrials(
             self,
             Trial(self, st,
                   [st.point EXCEPT ![Trials[i][1]] = @ + Trials[i][2] * step],
                   frames, normalized),
             i + 1, step, frames, normalized)

\* The rounds of _refine: at most 10; a round without a move halves the step
\* and stops when the halved step is below 0.25 m (1 quarter metre).
RefineRounds == 10
RECURSIVE RefineFrom(_, _, _, _, _, _)
RECURSIVE AfterRound(_, _, _, _, _, _)
AfterRound(self, r, step, round, frames, normalized) ==
    IF r.improved
    THEN RefineFrom(self, r, step, round + 1, frames, normalized)
    ELSE IF step < 2 THEN r
    ELSE RefineFrom(self, r, step \div 2, round + 1, frames, normalized)

RefineFrom(self, st, step, round, frames, normalized) ==
    IF round > RefineRounds THEN st
    ELSE AfterRound(self,
                    RefineTrials(self, [st EXCEPT !.improved = FALSE], 1, step,
                                 frames, normalized),
                    step, round, frames, normalized)

\* _refine: the point it returns, and the trials it made.
_refine(self, start, frames, normalized) ==
    RefineFrom(self, [point |-> start, improved |-> FALSE, trace |-> <<>>],
               self.grid_step \div 2, 1, frames, normalized)

\* The nodes that report while the engine runs.
EngineNodes == {1, 2}

\* What the search reads of a snapshot: per node total_energy and dir_local.
SearchInput(frames) ==
    [n \in DOMAIN frames |->
        [total_energy |-> frames[n].total_energy, dir_local |-> frames[n].dir_local]]

\* _grid_search followed by _refine (localization.py:75-76).
Refined(self, best, frames, normalized) ==
    [normalized |-> normalized, best_err |-> best.err,
     refined |-> _refine(self, best.point, frames, normalized).point]

Searched(self, frames, normalized) ==
    Refined(self, _grid_search(self, frames, normalized), frames, normalized)

Search(self, frames) ==
    Searched(self, frames,
             normalize_energies([n \in DOMAIN frames |-> frames[n].total_energy]))

RECURSIVE TableOf(_)
TableOf(S) ==
    IF S = {} THEN <<>>
    ELSE LET f == CHOOSE g \in S: TRUE
         IN (f :> Search(Engine, f)) @@ TableOf(S \ {f})

\* Search, computed once for every snapshot the engine can take.
SearchTable ==
    TableOf(UNION {[S -> {[total_energy |-> k[2], dir_local |-> k[3]]:
                          k \in FrameKinds}]:
                   S \in SUBSET EngineNodes})

\* present_nodes of _localize (localization.py:69).
present_nodes(frames) == {n \in DOMAIN frames: frames[n].present}

\* A detecting tick that reports the present nodes only: not what the code
\* does, and C21_NodeDetails tells the two apart.
Detected_present_only(frames, now, position, newvel, normalized, best_err) ==
    [position |-> position, velocity |-> newvel,
     fusion |-> FusionState(now, TRUE, position, newvel,
                            Max(0, Million - best_err), best_err,
                            {[id |-> n, energy |-> normalized[n],
                              dir |-> frames[n].dir_local, online |-> TRUE]:
                             n \in present_nodes(frames)})]

\* A detecting tick that is always certain: not what the code does, and
\* C20_Confidence tells the two apart.
Detected_certain(frames, now, position, newvel, normalized, best_err) ==
    [position |-> position, velocity |-> newvel,
     fusion |-> FusionState(now, TRUE, position, newvel, Million, best_err,
                            {[id |-> n, energy |-> normalized[n],
                              dir |-> frames[n].dir_local, online |-> TRUE]:
                             n \in DOMAIN frames})]

\* The FusionState of a detecting tick (localization.py:84-101).
Detected(frames, now, position, newvel, normalized, best_err) ==
    [position |-> position, velocity |-> newvel,
     fusion |-> FusionState(now, TRUE, position, newvel,
                            Max(0, Million - best_err), best_err,
                            {[id |-> n, energy |-> normalized[n],
                              dir |-> frames[n].dir_local, online |-> TRUE]:
                             n \in DOMAIN frames})]

\* Smoothing (localization.py:79-81) of the refined point, from quarter
\* metres to millimetres: the raw velocity over dt (in ms), then alpha and
\* beta (in tenths).
Located(found, frames, now, dt, lastpos, vel) ==
    LET ToMm(p) == <<p[1] * 250, p[2] * 250, p[3] * 250>>
        Smooth(new, old, weight) ==
            [i \in 1..3 |-> (weight * new[i] + (10 - weight) * old[i]) \div 10]
        RawVelocity(refined, last, d) ==
            [i \in 1..3 |-> ((refined[i] - last[i]) * 1000) \div d]
    IN Detected(frames, now,
                Smooth(ToMm(found.refined), lastpos, smoothing_alpha),
                Smooth(RawVelocity(ToMm(found.refined), lastpos, dt), vel,
                       smoothing_beta),
                found.normalized, found.best_err)

\* The detecting branch of _localize (localization.py:75-102): what it
\* assigns to self.last_position and self.velocity and the FusionState it
\* builds.  prev_ts is get_fusion_state().timestamp.
Localized(frames, now, prev_ts, lastpos, vel) ==
    Located(SearchTable[SearchInput(frames)], frames, now,
            Max((now - prev_ts) * 1000, 1), lastpos, vel)

(***************************************************************************)
(* Bytes and binascii.crc32 (packets.py:32, fusion_receiver.py:18).  A     *)
(* 32-bit value is four bytes, most significant first.                     *)
(***************************************************************************)
Xor8Table ==
    LET RECURSIVE XorBits(_, _, _)
        XorBits(a, b, k) ==
            IF k = 0 THEN 0
            ELSE ((a + b) % 2) + 2 * XorBits(a \div 2, b \div 2, k - 1)
    IN [a \in 0..255 |-> [b \in 0..255 |-> XorBits(a, b, 8)]]

Xor8(a, b) == Xor8Table[a][b]

\* Entry b: b through eight steps of "shift right by one and, when the bit
\* shifted out is 1, XOR with the reflected polynomial 0xEDB88320".
CrcTable ==
    LET ShiftRight1(c) ==
            <<c[1] \div 2,
              (c[1] % 2) * 128 + c[2] \div 2,
              (c[2] % 2) * 128 + c[3] \div 2,
              (c[3] % 2) * 128 + c[4] \div 2>>
        XorPoly(c) ==
            <<Xor8(c[1], 237), Xor8(c[2], 184), Xor8(c[3], 131), Xor8(c[4], 32)>>
        RECURSIVE CrcBits(_, _)
        CrcBits(c, k) ==
            IF k = 0 THEN c
            ELSE CrcBits(IF c[4] % 2 = 1 THEN XorPoly(ShiftRight1(c))
                         ELSE ShiftRight1(c), k - 1)
    IN [b \in 0..255 |-> CrcBits(<<0, 0, 0, b>>, 8)]

\* From 0xFFFFFFFF, one byte at a time c = table[(c ^ b) & 0xFF] ^ (c >> 8),
\* and the complement at the end.  (Range takes s[i..j] in order; its test
\* on c has the register computed before the next bytes are taken up.)
crc32(s) ==
    LET Step(c, t) ==
            <<t[1], Xor8(t[2], c[1]), Xor8(t[3], c[2]), Xor8(t[4], c[3])>>
        RECURSIVE Range(_, _, _)
        Range(c, i, j) ==
            IF c[1] < 0 THEN c
            ELSE IF i = j THEN Step(c, CrcTable[Xor8(c[4], s[i])])
            ELSE Range(Range(c, i, (i + j) \div 2), (i + j) \div 2 + 1, j)
        Complement(c) == <<255 - c[1], 255 - c[2], 255 - c[3], 255 - c[4]>>
    IN IF s = <<>> THEN <<0, 0, 0, 0>>
       ELSE Complement(Range(<<255, 255, 255, 255>>, 1, Len(s)))

\* f"{crc:08x}": eight lowercase hex digits.
Hex8(c) ==
    LET HexDigit(n) == IF n < 10 THEN 48 + n ELSE 87 + n
        Hex2(b) == <<HexDigit(b \div 16), HexDigit(b % 16)>>
    IN Hex2(c[1]) \o Hex2(c[2]) \o Hex2(c[3]) \o Hex2(c[4])

(***************************************************************************)
(* Python values on the wire.  A value is a tuple with its type first:     *)
(*   <<"int", n>>   <<"float", tenths>>   <<"bool", b>>   <<"None">>       *)
(*   <<"str", code points>>   <<"list", values>>   <<"dict", items>>       *)
(* where the items of a dict are <<key, value>> pairs in insertion order   *)
(* and a key is a sequence of code points.                                 *)
(***************************************************************************)
IsNumber(v) == v[1] \in {"int", "float", "bool"}

\* The sequences s[1] \o ... \o s[n] as one sequence.
Concat(s) ==
    LET RECURSIVE Flatten(_, _)
        Flatten(i, j) ==
            IF i > j THEN <<>>
            ELSE IF i = j THEN s[i]
            ELSE Flatten(i, (i + j) \div 2) \o Flatten((i + j) \div 2 + 1, j)
    IN Flatten(1, Len(s))

HasKey(items, key) == \E i \in 1..Len(items): items[i][1] = key

\* dict[key]
DictGet(items, key) ==
    items[CHOOSE i \in 1..Len(items): items[i][1] = key][2]

\* dict.get(key, default)
Get(items, key, default) ==
    IF HasKey(items, key) THEN DictGet(items, key) ELSE default

\* dict[key] = value: a key already there keeps its place.
DictSet(items, key, value) ==
    IF HasKey(items, key)
    THEN [i \in 1..Len(items) |->
            IF items[i][1] = key THEN <<key, value>> ELSE items[i]]
    ELSE Append(items, <<key, value>>)

\* dict.update(other), from item i of other on.
RECURSIVE DictUpdate(_, _, _)
DictUpdate(items, other, i) ==
    IF i > Len(other) THEN items
    ELSE DictUpdate(DictSet(items, other[i][1], other[i][2]), other, i + 1)

(***************************************************************************)
(* json.dumps(payload, separators=(",", ":")) with the default             *)
(* ensure_ascii=True, as code points.                                      *)
(***************************************************************************)
RECURSIVE JsonDumps(_)
JsonDumps(v) ==
    LET RECURSIVE Digits(_)
        Digits(n) ==
            IF n < 10 THEN <<48 + n>>
            ELSE Append(Digits(n \div 10), 48 + (n % 10))
        \* repr of a float of so many tenths: "0.0", "4.9", "-12.5"
        DumpFloat(t) ==
            IF t < 0 THEN <<45>> \o Digits((-t) \div 10) \o <<46, 48 + ((-t) % 10)>>
            ELSE Digits(t \div 10) \o <<46, 48 + (t % 10)>>
        \* ESCAPE_ASCII: the quote, the backslash and all but " ".."~"
        EscapeChar(c) ==
            IF c = 34 THEN <<92, 34>>
            ELSE IF c = 92 THEN <<92, 92>>
            ELSE IF c = 10 THEN <<92, 110>>
            ELSE IF c = 13 THEN <<92, 114>>
            ELSE IF c = 9 THEN <<92, 116>>
            ELSE IF c = 8 THEN <<92, 98>>
            ELSE IF c = 12 THEN <<92, 102>>
            ELSE IF c < 32 \/ c > 126
            THEN <<92, 117>> \o SubSeq(Hex8(<<0, 0, c \div 256, c % 256>>), 5, 8)
            ELSE <<c>>
        DumpStr(s) ==
            <<34>> \o Concat([i \in 1..Len(s) |-> EscapeChar(s[i])]) \o <<34>>
        Joined(parts) ==
            Concat([i \in 1..Len(parts) |->
                      IF i = 1 THEN parts[i] ELSE <<44>> \o parts[i]])
    IN IF v[1] = "int"
       THEN (IF v[2] < 0 THEN <<45>> \o Digits(-v[2]) ELSE Digits(v[2]))
       ELSE IF v[1] = "float" THEN DumpFloat(v[2])
       ELSE IF v[1] = "bool"
       THEN (IF v[2] THEN <<116, 114, 117, 101>> ELSE <<102, 97, 108, 115, 101>>)
       ELSE IF v[1] = "None" THEN <<110, 117, 108, 108>>
       ELSE IF v[1] = "str" THEN DumpStr(v[2])
       ELSE IF v[1] = "list"
       THEN <<91>> \o Joined([i \in 1..Len(v[2]) |-> JsonDumps(v[2][i])]) \o <<93>>
       ELSE <<123>>
            \o Joined([i \in 1..Len(v[2]) |->
                         DumpStr(v[2][i][1]) \o <<58>> \o JsonDumps(v[2][i][2])])
            \o <<125>>

(***************************************************************************)
(* str.encode("utf-8") and bytes.decode("utf-8") (packets.py:31,           *)
(* fusion_receiver.py:21).                                                 *)
(***************************************************************************)
Utf8Encode(s) ==
    LET EncodeChar(c) ==
            IF c < 128 THEN <<c>>
            ELSE IF c < 2048 THEN <<192 + c \div 64, 128 + (c % 64)>>
            ELSE IF c < 65536
            THEN <<224 + c \div 4096, 128 + ((c \div 64) % 64), 128 + (c % 64)>>
            ELSE <<240 + c \div 262144, 128 + ((c \div 4096) % 64),
                   128 + ((c \div 64) % 64), 128 + (c % 64)>>
    IN Concat([i \in 1..Len(s) |-> EncodeChar(s[i])])

\* Every byte starts a well-formed character (its continuation bytes
\* follow; it is not overlong, not a surrogate, not above U+10FFFF) or is a
\* continuation byte of a character that starts before it.
Utf8Valid(d) ==
    LET IsCont(b) == b >= 128 /\ b <= 191
        LeadLen(b) ==
            IF b < 128 THEN 1
            ELSE IF b >= 194 /\ b <= 223 THEN 2
            ELSE IF b >= 224 /\ b <= 239 THEN 3
            ELSE IF b >= 240 /\ b <= 244 THEN 4
            ELSE 0
        CharAt(i) ==
            /\ LeadLen(d[i]) > 0
            /\ i + LeadLen(d[i]) - 1 <= Len(d)
            /\ \A j \in (i + 1)..(i + LeadLen(d[i]) - 1): IsCont(d[j])
            /\ d[i] = 224 => d[i + 1] >= 160
            /\ d[i] = 237 => d[i + 1] <= 159
            /\ d[i] = 240 => d[i + 1] >= 144
            /\ d[i] = 244 => d[i + 1] <= 143
        Continues(i) ==
            \E j \in Max(1, i - 3)..(i - 1):
                /\ ~IsCont(d[j])
                /\ LeadLen(d[j]) > i - j
                /\ \A k \in (j + 1)..i: IsCont(d[k])
    IN \A i \in 1..Len(d): IF IsCont(d[i]) THEN Continues(i) ELSE CharAt(i)

\* Of valid bytes: the code point at each byte that starts a character.
Utf8Decode(d) ==
    LET CodePoint(i) ==
            IF d[i] < 128 THEN d[i]
            ELSE IF d[i] < 192 THEN -1
            ELSE IF d[i] < 224 THEN (d[i] - 192) * 64 + (d[i + 1] - 128)
            ELSE IF d[i] < 240
            THEN (d[i] - 224) * 4096 + (d[i + 1] - 128) * 64 + (d[i + 2] - 128)
            ELSE (d[i] - 240) * 262144 + (d[i + 1] - 128) * 4096
                 + (d[i + 2] - 128) * 64 + (d[i + 3] - 128)
    IN SelectSeq([i \in 1..Len(d) |-> CodePoint(i)], LAMBDA c: c >= 0)

(***************************************************************************)
(* json.loads (fusion_receiver.py:21), on code points: [ok, val].  Inside, *)
(* a result is [ok, val, pos] with pos the index after the value.  The     *)
(* numbers read are those json.dumps writes for the model's values:        *)
(* integers of up to nine digits and floats with one fractional digit.     *)
(***************************************************************************)
JsonLoads(s) ==
    LET Ok(val, pos) == [ok |-> TRUE, val |-> val, pos |-> pos]
        Bad == [ok |-> FALSE, val |-> <<"None">>, pos |-> 0]
        \* s[i], or -1 outside s
        At(i) == IF i >= 1 /\ i <= Len(s) THEN s[i] ELSE -1
        RECURSIVE SkipWs(_)
        SkipWs(i) == IF At(i) \in {32, 9, 10, 13} THEN SkipWs(i + 1) ELSE i
        Matches(i, word) ==
            /\ i + Len(word) - 1 <= Len(s)
            /\ SubSeq(s, i, i + Len(word) - 1) = word
        IsDigit(c) == c >= 48 /\ c <= 57
        \* the first index from i on that holds no digit
        RECURSIVE DigitsEnd(_)
        DigitsEnd(i) == IF IsDigit(At(i)) THEN DigitsEnd(i + 1) ELSE i
        RECURSIVE DigitsValue(_, _)
        DigitsValue(i, j) ==
            IF i > j THEN 0 ELSE DigitsValue(i, j - 1) * 10 + (s[j] - 48)
        HexValue(c) ==
            IF IsDigit(c) THEN c - 48
            ELSE IF c >= 97 /\ c <= 102 THEN c - 87
            ELSE IF c >= 65 /\ c <= 70 THEN c - 55
            ELSE -1
        Negated(i, n) == IF s[i] = 45 THEN -n ELSE n
        \* NUMBER_RE, -?(0|[1-9]\d*)(\.\d+)?, from i: d is the index of the
        \* first digit, e the end of the integer part, f of the fraction
        NumberFrac(i, d, e, f) ==
            IF f = e + 1 THEN Ok(<<"int", Negated(i, DigitsValue(d, e - 1))>>, e)
            ELSE IF f > e + 2 \/ At(f) \in {101, 69} THEN Bad
            ELSE Ok(<<"float", Negated(i, DigitsValue(d, e - 1) * 10
                                          + (s[e + 1] - 48))>>, f)
        NumberInt(i, d, e) ==
            IF e = d \/ e - d > 9 THEN Bad
            ELSE IF At(e) = 46 THEN NumberFrac(i, d, e, DigitsEnd(e + 1))
            ELSE IF At(e) \in {101, 69} THEN Bad
            ELSE Ok(<<"int", Negated(i, DigitsValue(d, e - 1))>>, e)
        NumberFrom(i, d) ==
            NumberInt(i, d, IF At(d) = 48 THEN d + 1 ELSE DigitsEnd(d))
        \* the character a backslash escape stands for; -1 for none
        Unescaped(c) ==
            IF c \in {34, 92, 47} THEN c
            ELSE IF c = 98 THEN 8
            ELSE IF c = 102 THEN 12
            ELSE IF c = 110 THEN 10
            ELSE IF c = 114 THEN 13
            ELSE IF c = 116 THEN 9
            ELSE -1
        Hex4Value(i) ==
            HexValue(s[i]) * 4096 + HexValue(s[i + 1]) * 256
            + HexValue(s[i + 2]) * 16 + HexValue(s[i + 3])
        \* a string from the index after its opening quote (strict: no
        \* control characters)
        RECURSIVE ParseString(_, _)
        ParseString(i, acc) ==
            IF At(i) < 32 THEN Bad
            ELSE IF s[i] = 34 THEN Ok(<<"str", acc>>, i + 1)
            ELSE IF s[i] # 92 THEN ParseString(i + 1, Append(acc, s[i]))
            ELSE IF At(i + 1) = 117
            THEN IF \A k \in (i + 2)..(i + 5): HexValue(At(k)) >= 0
                 THEN ParseString(i + 6, Append(acc, Hex4Value(i + 2)))
                 ELSE Bad
            ELSE IF Unescaped(At(i + 1)) >= 0
            THEN ParseString(i + 2, Append(acc, Unescaped(s[i + 1])))
            ELSE Bad
        RECURSIVE ValueAt(_)
        RECURSIVE ParseItems(_, _)
        RECURSIVE ParseMembers(_, _)
        \* after a list item: "," and the next item, or "]"
        ItemsAfter(r, acc) ==
            IF ~r.ok THEN Bad
            ELSE IF At(SkipWs(r.pos)) = 44
            THEN ParseItems(SkipWs(SkipWs(r.pos) + 1), Append(acc, r.val))
            ELSE IF At(SkipWs(r.pos)) = 93
            THEN Ok(<<"list", Append(acc, r.val)>>, SkipWs(r.pos) + 1)
            ELSE Bad
        ParseItems(i, acc) == ItemsAfter(ValueAt(i), acc)
        \* one "key":value member from the quote of its key at i:
        \* [ok, key, val, pos]
        MemberValue(k, r) ==
            IF ~r.ok THEN [ok |-> FALSE]
            ELSE [ok |-> TRUE, key |-> k.val[2], val |-> r.val,
                  pos |-> SkipWs(r.pos)]
        MemberKey(k) ==
            IF ~k.ok \/ At(SkipWs(k.pos)) # 58 THEN [ok |-> FALSE]
            ELSE MemberValue(k, ValueAt(SkipWs(SkipWs(k.pos) + 1)))
        ParseMember(i) ==
            IF At(i) # 34 THEN [ok |-> FALSE]
            ELSE MemberKey(ParseString(i + 1, <<>>))
        \* after a member: "," and the next member, or "}"; a key read
        \* twice keeps its last value
        MembersAfter(m, acc) ==
            IF ~m.ok THEN Bad
            ELSE IF At(m.pos) = 44
            THEN ParseMembers(SkipWs(m.pos + 1), DictSet(acc, m.key, m.val))
            ELSE IF At(m.pos) = 125
            THEN Ok(<<"dict", DictSet(acc, m.key, m.val)>>, m.pos + 1)
            ELSE Bad
        ParseMembers(i, acc) == MembersAfter(ParseMember(i), acc)
        ValueAt(i) ==
            IF At(i) = 34 THEN ParseString(i + 1, <<>>)
            ELSE IF At(i) = 123
            THEN IF At(SkipWs(i + 1)) = 125
                 THEN Ok(<<"dict", <<>>>>, SkipWs(i + 1) + 1)
                 ELSE ParseMembers(SkipWs(i + 1), <<>>)
            ELSE IF At(i) = 91
            THEN IF At(SkipWs(i + 1)) = 93
                 THEN Ok(<<"list", <<>>>>, SkipWs(i + 1) + 1)
                 ELSE ParseItems(SkipWs(i + 1), <<>>)
            ELSE IF Matches(i, <<110, 117, 108, 108>>) THEN Ok(<<"None">>, i + 4)
            ELSE IF Matches(i, <<116, 114, 117, 101>>)
            THEN Ok(<<"bool", TRUE>>, i + 4)
            ELSE IF Matches(i, <<102, 97, 108, 115, 101>>)
            THEN Ok(<<"bool", FALSE>>, i + 5)
            ELSE IF IsDigit(At(i)) THEN NumberFrom(i, i)
            ELSE IF At(i) = 45 THEN NumberFrom(i, i + 1)
            ELSE Bad
        \* the whole text is one value with only white space around it
        Whole(r) ==
            IF r.ok /\ SkipWs(r.pos) = Len(s) + 1
            THEN [ok |-> TRUE, val |-> r.val]
            ELSE [ok |-> FALSE, val |-> <<"None">>]
    IN Whole(ValueAt(SkipWs(1)))

(***************************************************************************)
(* Packet (packets.py:11-33).  A Packet holds plain values: integers, a    *)
(* boolean, floats in tenths; its extra is None or a dict of Python        *)
(* values.                                                                 *)
(***************************************************************************)
\* The keys of the record, spelled as code points.
Key ==
    [ node_id |-> <<110, 111, 100, 101, 95, 105, 100>>,
      seq |-> <<115, 101, 113>>,
      ts_us |-> <<116, 115, 95, 117, 115>>,
      present |-> <<112, 114, 101, 115, 101, 110, 116>>,
      mic_rms |-> <<109, 105, 99, 95, 114, 109, 115>>,
      noise_rms |-> <<110, 111, 105, 115, 101, 95, 114, 109, 115>>,
      crest |-> <<99, 114, 101, 115, 116>>,
      bandpower |-> <<98, 97, 110, 100, 112, 111, 119, 101, 114>>,
      dir_local |-> <<100, 105, 114, 95, 108, 111, 99, 97, 108>>,
      dir_conf |-> <<100, 105, 114, 95, 99, 111, 110, 102>>,
      supply_v |-> <<115, 117, 112, 112, 108, 121, 95, 118>>,
      temp_c |-> <<116, 101, 109, 112, 95, 99>>,
      extra |-> <<101, 120, 116, 114, 97>>,
      total_energy |-> <<116, 111, 116, 97, 108, 95, 101, 110, 101, 114, 103, 121>>,
      heartbeat |-> <<104, 101, 97, 114, 116, 98, 101, 97, 116>>,
      note |-> <<110, 111, 116, 101>> ]

Packet(node_id, seq, ts_us, present, mic_rms, noise_rms, crest, bandpower, dir_local, dir_conf, supply_v, temp_c, extra) ==
    [node_id |-> node_id, seq |-> seq, ts_us |-> ts_us, present |-> present,
     mic_rms |-> mic_rms, noise_rms |-> noise_rms, crest |-> crest,
     bandpower |-> bandpower, dir_local |-> dir_local, dir_conf |-> dir_conf,
     supply_v |-> supply_v, temp_c |-> temp_c, extra |-> extra]

\* dataclasses.asdict(self): the fields in their order, extra copied whole.
asdict(p) ==
    LET Floats(xs) == <<"list", [i \in 1..Len(xs) |-> <<"float", xs[i]>>]>>
    IN <<"dict",
         << <<Key.node_id, <<"int", p.node_id>> >>,
            <<Key.seq, <<"int", p.seq>> >>,
            <<Key.ts_us, <<"int", p.ts_us>> >>,
            <<Key.present, <<"bool", p.present>> >>,
            <<Key.mic_rms, Floats(p.mic_rms)>>,
            <<Key.noise_rms, Floats(p.noise_rms)>>,
            <<Key.crest, Floats(p.crest)>>,
            <<Key.bandpower, Floats(p.bandpower)>>,
            <<Key.dir_local, Floats(p.dir_local)>>,
            <<Key.dir_conf, <<"float", p.dir_conf>> >>,
            <<Key.supply_v, <<"float", p.supply_v>> >>,
            <<Key.temp_c, <<"float", p.temp_c>> >>,
            <<Key.extra, p.extra>> >> >>

\* `if self.extra: payload.update(self.extra)`: None and {} are falsy.
Merged(p) ==
    IF p.extra = <<"None">> \/ p.extra = <<"dict", <<>>>> THEN asdict(p)
    ELSE <<"dict", DictUpdate(asdict(p)[2], p.extra[2], 1)>>

\* json.dumps(...).encode("utf-8")
Serialized(v) == Utf8Encode(JsonDumps(v))

\* payload_bytes + b"|" + crc
Framed(payload_bytes) == payload_bytes \o <<124>> \o Hex8(crc32(payload_bytes))

to_payload(p) == Framed(Serialized(Merged(p)))

(***************************************************************************)
(* parse_packet (fusion_receiver.py:15-24).  It returns [ok, decoded, crc] *)
(* or raises: [ok |-> FALSE, exc, msg].                                    *)
(***************************************************************************)
\* A split at the first "|": not what rsplit does, and C8_WireFraming tells
\* the two apart.
FirstBar(data) ==
    IF \A i \in 1..Len(data): data[i] # 124 THEN 0
    ELSE CHOOSE i \in 1..Len(data):
            data[i] = 124 /\ \A j \in 1..(i - 1): data[j] # 124

\* data.rsplit(b"|", 1) splits at the last "|"; 0 when there is none.
LastBar(data) ==
    IF \A i \in 1..Len(data): data[i] # 124 THEN 0
    ELSE CHOOSE i \in 1..Len(data):
            data[i] = 124 /\ \A j \in (i + 1)..Len(data): data[j] # 124

\* A parse that does not compare the CRC: not what the code does, and
\* C7_BitFlipRejected tells the two apart.
ParseUnchecked(payload, crc_hex) ==
    LET Loaded(r) ==
            IF ~r.ok THEN [ok |-> FALSE, exc |-> "ValueError",
                           msg |-> "Invalid packet: JSON"]
            ELSE [ok |-> TRUE, decoded |-> r.val, crc |-> crc_hex]
    IN IF ~Utf8Valid(payload)
       THEN [ok |-> FALSE, exc |-> "ValueError", msg |-> "Invalid packet: utf-8"]
       ELSE Loaded(JsonLoads(Utf8Decode(payload)))

\* Lines 18-22: the CRC of the payload against crc_hex, then
\* json.loads(payload.decode("utf-8")).
ParseCrc(payload, crc_hex) ==
    LET Loaded(r) ==
            IF ~r.ok THEN [ok |-> FALSE, exc |-> "ValueError",
                           msg |-> "Invalid packet: JSON"]
            ELSE [ok |-> TRUE, decoded |-> r.val, crc |-> crc_hex]
    IN IF Hex8(crc32(payload)) # crc_hex
       THEN [ok |-> FALSE, exc |-> "ValueError",
             msg |-> "Invalid packet: CRC mismatch"]
       ELSE IF ~Utf8Valid(payload)
       THEN [ok |-> FALSE, exc |-> "ValueError", msg |-> "Invalid packet: utf-8"]
       ELSE Loaded(JsonLoads(Utf8Decode(payload)))

parse_packet(data) ==
    LET Split(k) ==
            IF k = 0
            THEN [ok |-> FALSE, exc |-> "ValueError",
                  msg |-> "Invalid packet: unpack"]
            ELSE ParseCrc(SubSeq(data, 1, k - 1), SubSeq(data, k + 1, Len(data)))
    IN Split(LastBar(data))

(***************************************************************************)
(* datagram_received (fusion_receiver.py:31-50).  Its outcome is the frame *)
(* handed to update_frame, or the exception it logs.  A Frame holds plain  *)
(* values: integers, booleans, floats in tenths, the timestamp in          *)
(* millionths of a second; a value of another type stays as it is.         *)
(***************************************************************************)
Stored(frame) == [stored |-> TRUE, frame |-> frame]
Dropped(exc, msg) == [stored |-> FALSE, exc |-> exc, msg |-> msg]

\* A number as a float, in tenths.
NumTenths(v) ==
    IF v[1] = "float" THEN v[2]
    ELSE IF v[1] = "int" THEN 10 * v[2]
    ELSE IF v[2] THEN 10 ELSE 0

RECURSIVE InTenths(_)
InTenths(v) ==
    IF v[1] \in {"int", "float"} THEN NumTenths(v)
    ELSE IF v[1] = "list" THEN [i \in 1..Len(v[2]) |-> InTenths(v[2][i])]
    ELSE v

\* A Frame(...) call whose total_energy defaults to 0.0: not what the code
\* does, and C33_Defaults tells the two apart.
FrameOf_zero_energy(items) ==
    LET Plain(v) == IF v[1] \in {"int", "bool"} THEN v[2] ELSE v
        InMillionths(v) ==
            IF v[1] = "float" THEN v[2] * 100000
            ELSE IF v[1] = "int" THEN v[2]
            ELSE IF v[2] THEN 1 ELSE 0
        List(key) == InTenths(Get(items, key, <<"list", <<>>>>))
    IN Frame(Plain(DictGet(items, Key.node_id)),
             Plain(DictGet(items, Key.seq)),
             InMillionths(DictGet(items, Key.ts_us)),
             Plain(Get(items, Key.present, <<"bool", FALSE>>)),
             List(Key.mic_rms), List(Key.noise_rms), List(Key.crest),
             List(Key.bandpower), List(Key.dir_local),
             InTenths(Get(items, Key.dir_conf, <<"float", 0>>)),
             NumTenths(Get(items, Key.total_energy, <<"float", 0>>)),
             <<"dict", items>>)

\* The Frame(...) call of lines 34-47 on a record that has what it needs.
FrameOf(items) ==
    LET Plain(v) == IF v[1] \in {"int", "bool"} THEN v[2] ELSE v
        \* payload["ts_us"] / 1_000_000.0
        InMillionths(v) ==
            IF v[1] = "float" THEN v[2] * 100000
            ELSE IF v[1] = "int" THEN v[2]
            ELSE IF v[2] THEN 1 ELSE 0
        RECURSIVE Sum(_, _)
        Sum(xs, i) == IF i > Len(xs) THEN 0 ELSE NumTenths(xs[i]) + Sum(xs, i + 1)
        List(key) == InTenths(Get(items, key, <<"list", <<>>>>))
    IN Frame(Plain(DictGet(items, Key.node_id)),
             Plain(DictGet(items, Key.seq)),
             InMillionths(DictGet(items, Key.ts_us)),
             Plain(Get(items, Key.present, <<"bool", FALSE>>)),
             List(Key.mic_rms), List(Key.noise_rms), List(Key.crest),
             List(Key.bandpower), List(Key.dir_local),
             InTenths(Get(items, Key.dir_conf, <<"float", 0>>)),
             NumTenths(Get(items, Key.total_energy,
                           <<"float", Sum(Get(items, Key.mic_rms, <<"list", <<>>>>)[2], 1)>>)),
             <<"dict", items>>)

\* A receiver that reads the required keys with payload.get(key, 0): not
\* what the code does, and C5_MalformedDropped tells the two apart.
BuildFrameDefaulting(items) ==
    Stored(FrameOf(DictUpdate(<< <<Key.node_id, <<"int", 0>> >>,
                                 <<Key.seq, <<"int", 0>> >>,
                                 <<Key.ts_us, <<"int", 0>> >> >>, items, 1)))

\* The exceptions of the Frame(...) call, in the order its arguments are
\* evaluated, then update_frame's setdefault on an unhashable node_id.
\* sum() adds numbers up, and an empty str or dict sums to 0 as an empty
\* list does.  (float() of a str is taken to raise: no datagram of the
\* model holds a number as text.)
BuildFrame(items) ==
    LET Summable(v) ==
            /\ v[1] \in {"list", "str", "dict"}
            /\ v[1] = "list" => \A i \in 1..Len(v[2]): IsNumber(v[2][i])
            /\ v[1] # "list" => v[2] = <<>>
    IN IF ~HasKey(items, Key.node_id) THEN Dropped("KeyError", "node_id")
       ELSE IF ~HasKey(items, Key.seq) THEN Dropped("KeyError", "seq")
       ELSE IF ~HasKey(items, Key.ts_us) THEN Dropped("KeyError", "ts_us")
       ELSE IF ~IsNumber(DictGet(items, Key.ts_us)) THEN Dropped("TypeError", "/")
       ELSE IF ~Summable(Get(items, Key.mic_rms, <<"list", <<>>>>))
       THEN Dropped("TypeError", "sum")
       ELSE IF Get(items, Key.total_energy, <<"float", 0>>)[1] = "str"
       THEN Dropped("ValueError", "float")
       ELSE IF ~IsNumber(Get(items, Key.total_energy, <<"float", 0>>))
       THEN Dropped("TypeError", "float")
       ELSE IF DictGet(items, Key.node_id)[1] \in {"list", "dict"}
       THEN Dropped("TypeError", "unhashable")
       ELSE Stored(FrameOf(items))

\* payload["node_id"] on what parse_packet returned.
Handled(r) ==
    IF ~r.ok THEN Dropped(r.exc, r.msg)
    ELSE IF r.decoded[1] # "dict" THEN Dropped("TypeError", "subscript")
    ELSE BuildFrame(r.decoded[2])

datagram_received(data) == Handled(parse_packet(data))

(***************************************************************************)
(* The packets a node sends in the model, and datagrams no to_payload      *)
(* ever produced.                                                          *)
(***************************************************************************)
\* 1: a frame packet as from_frame builds it; 2: a heartbeat
\* (node_agent.py:84-98); 3: no extra at all; 4: a string in extra that
\* holds "|", a quote and a backslash; 5: extra keys that are also fields
\* of the record; 6: an empty extra.
Packets ==
    << Packet(1, 1, 1000000, TRUE, <<6, 12>>, <<1, 1>>, <<15, 10>>, <<3, 0>>,
              <<10, 0, -5>>, 5, 49, 370,
              <<"dict", << <<Key.total_energy, <<"float", 18>> >> >> >>),
       Packet(1, 2, 2000000, FALSE, <<0, 0>>, <<1, 1>>, <<0, 0>>, <<0, 0>>,
              <<0, 0, 0>>, 0, 49, 370,
              <<"dict", << <<Key.heartbeat, <<"bool", TRUE>> >> >> >>),
       Packet(2, 1, 0, FALSE, <<>>, <<>>, <<>>, <<>>, <<>>, 0, 49, 370,
              <<"None">>),
       Packet(2, 2, 1000000, TRUE, <<4>>, <<1>>, <<10>>, <<>>, <<>>, 10, 49,
              370,
              <<"dict", << <<Key.note, <<"str", <<97, 124, 98, 34, 92>> >> >> >> >>),
       Packet(1, 3, 3000000, TRUE, <<6>>, <<1>>, <<10>>, <<0, 0>>,
              <<10, 0, 0>>, 5, 49, 370,
              <<"dict", << <<Key.node_id, <<"int", 2>> >>,
                           <<Key.seq, <<"int", 9>> >> >> >>),
       Packet(2, 3, 0, FALSE, <<2>>, <<1>>, <<10>>, <<0, 0>>, <<0, 0, 0>>, 0,
              49, 370, <<"dict", <<>>>>) >>

\* The packets whose datagrams the network may damage.
FlipPackets == {3, 4}

\* Each with the message of the exception it has to end in.
Malformed ==
    LET Required == <<Key.node_id, Key.seq, Key.ts_us>>
        \* a record with the required keys but one
        Lacking(key) ==
            <<"dict", SelectSeq([i \in 1..3 |-> <<Required[i], <<"int", i>> >>],
                                LAMBDA item: item[1] # key)>>
    IN << [data |-> Serialized(Merged(Packets[3])),
           msg |-> "Invalid packet: unpack"],
          [data |-> <<>>, msg |-> "Invalid packet: unpack"],
          [data |-> Serialized(Merged(Packets[3])) \o <<124>>
                    \o <<48, 48, 48, 48, 48, 48, 48, 48>>,
           msg |-> "Invalid packet: CRC mismatch"],
          [data |-> SubSeq(to_payload(Packets[3]), 1,
                           Len(to_payload(Packets[3])) - 1),
           msg |-> "Invalid packet: CRC mismatch"],
          [data |-> Framed(<<123, 34, 255, 34, 125>>),
           msg |-> "Invalid packet: utf-8"],
          [data |-> Framed(SubSeq(Serialized(Merged(Packets[3])), 1, 20)),
           msg |-> "Invalid packet: JSON"],
          [data |-> Framed(Serialized(Lacking(Key.node_id))), msg |-> "node_id"],
          [data |-> Framed(Serialized(Lacking(Key.seq))), msg |-> "seq"],
          [data |-> Framed(Serialized(Lacking(Key.ts_us))), msg |-> "ts_us"] >>

Pending == Dropped("", "in flight")

\* Records with a valid CRC that no Packet produced: 1 has node_id, seq and
\* ts_us only; 2 has mic_rms too; 3 has present, dir_conf and total_energy
\* but no list; 4 has every list but no total_energy.
Bare ==
    LET Required(n, s) == << <<Key.node_id, <<"int", n>> >>,
                            <<Key.seq, <<"int", s>> >>,
                            <<Key.ts_us, <<"int", 1000000>> >> >>
        Floats(xs) == <<"list", [i \in 1..Len(xs) |-> <<"float", xs[i]>>]>>
    IN << Required(1, 4),
          Required(1, 5) \o << <<Key.mic_rms, Floats(<<6, 12>>)>> >>,
          Required(2, 4) \o << <<Key.present, <<"bool", TRUE>> >>,
                               <<Key.dir_conf, <<"float", 5>> >>,
                               <<Key.total_energy, <<"float", 7>> >> >>,
          Required(2, 5) \o << <<Key.mic_rms, Floats(<<4>>)>>,
                               <<Key.noise_rms, Floats(<<1>>)>>,
                               <<Key.crest, Floats(<<10>>)>>,
                               <<Key.bandpower, Floats(<<3, 0>>)>>,
                               <<Key.dir_local, Floats(<<10, 0, 0>>)>> >> >>

(***************************************************************************)
(* The node's feature extraction (node/dsp.py).  Samples are in            *)
(* thousandths; rms values, energies and noise levels are in millionths,   *)
(* so that the 1e-6 of noise_sum is one unit.                              *)
(***************************************************************************)
num_channels == 2
frame_hop == 2
\* max(int(window_seconds * sample_rate), frame_hop)
window_samples == 4
\* np.ones(channels) * 0.05
NoiseInit == [c \in 1..num_channels |-> 50000]

\* RingBuffer.append
append(b, samples) ==
    LET n == Len(samples[1])
        end == b.pos + n
        first == window_samples - b.pos
        \* buffer[:, pos:end] = samples
        Straight(c, i) ==
            IF b.pos < i /\ i <= end THEN samples[c][i - b.pos]
            ELSE b.buffer[c][i]
        \* buffer[:, pos:] = samples[:, :first]
        \* buffer[:, :n - first] = samples[:, first:]
        Wrapped(c, i) ==
            IF i <= n - first THEN samples[c][first + i]
            ELSE IF b.pos < i THEN samples[c][i - b.pos]
            ELSE b.buffer[c][i]
    IN IF n >= window_samples
       THEN [buffer |-> [c \in 1..num_channels |->
                           SubSeq(samples[c], n - window_samples + 1, n)],
             pos |-> 0, filled |-> TRUE]
       ELSE [buffer |-> [c \in 1..num_channels |->
                           [i \in 1..window_samples |->
                              IF end < window_samples THEN Straight(c, i)
                              ELSE Wrapped(c, i)]],
             pos |-> end % window_samples,
             filled |-> b.filled \/ n # 0]

\* The buffer in its physical order: not what the code does, and
\* C12_ViewIsTail tells the two apart.
view_physical(b) == b.buffer

\* RingBuffer.view
view(b) ==
    IF ~b.filled
    THEN [c \in 1..num_channels |-> SubSeq(b.buffer[c], 1, b.pos)]
    ELSE [c \in 1..num_channels |->
            [i \in 1..window_samples |->
               b.buffer[c][((i - 1 + b.pos) % window_samples) + 1]]]

\* A decision on the upper threshold alone: not what the code does, and
\* C9_Hysteresis tells the two apart.
DetectAboveHi(total_energy, noise_sum, last_present) ==
    2 * total_energy > 7 * noise_sum

\* total_energy > hi or (self.last_present and total_energy > lo), with
\* hi = noise_sum * 3.5 and lo = noise_sum * 3.0
Detect(total_energy, noise_sum, last_present) ==
    \/ 2 * total_energy > 7 * noise_sum
    \/ last_present /\ total_energy > 3 * noise_sum

\* A tracker that follows the signal too: not what the code does, and
\* C10_NoiseFrozen tells the two apart.
update_always(level, rms, present) ==
    [c \in 1..num_channels |-> (99 * level[c] + rms[c]) \div 100]

\* NoiseTracker.update, alpha = 0.01
update(level, rms, present) ==
    IF ~present
    THEN [c \in 1..num_channels |-> (99 * level[c] + rms[c]) \div 100]
    ELSE level

\* DirectionEstimator.__init__: the unit vectors, in thousandths.
DirectionEstimator(vectors) ==
    LET Unit(v, norm) ==
            [k \in 1..3 |-> (1000 * v[k]) \div (IF norm = 0 THEN 1 ELSE norm)]
    IN [c \in 1..num_channels |-> Unit(vectors[c], Isqrt(Dot(vectors[c], vectors[c])))]

\* (weights[:, None] * self.vecs).sum(axis=0), and direction / norm where
\* the norm is not 0; ZeroVec where it is.  The norm is taken of the sum
\* scaled down, to stay within the integers: it is 0 only if the sum is.
Direction(vecs, w) ==
    LET Abs(x) == IF x < 0 THEN -x ELSE x
        Over(x, y) == IF x < 0 THEN -((-x) \div y) ELSE x \div y
        Unit(s) == [k \in 1..3 |-> Over(1000 * s[k], Isqrt(Dot(s, s)))]
        Normed(d, q) == Unit([k \in 1..3 |-> Over(d[k], q)])
        Of(d) ==
            IF d = ZeroVec THEN ZeroVec
            ELSE Normed(d, (Max(Abs(d[1]), Max(Abs(d[2]), Abs(d[3])))
                            \div 20000) + 1)
    IN Of([k \in 1..3 |->
             SumOver([c \in 1..num_channels |-> w[c] * vecs[c][k]],
                     1..num_channels)])

\* An estimate without the test of the norm: not what the code does, and
\* C14_ZeroTogether tells the two apart.
estimate_unguarded(vecs, weights) ==
    LET w == [c \in 1..num_channels |-> Max(weights[c], 0)]
    IN IF \A c \in 1..num_channels: w[c] = 0
       THEN [dir |-> ZeroVec, conf |-> 0]
       ELSE [dir |-> Direction(vecs, w),
             conf |-> Min(SumOver(w, 1..num_channels), Million)]

\* DirectionEstimator.estimate: the direction in thousandths, the
\* confidence in millionths.
estimate(vecs, weights) ==
    LET w == [c \in 1..num_channels |-> Max(weights[c], 0)]
    IN IF \A c \in 1..num_channels: w[c] = 0
       THEN [dir |-> ZeroVec, conf |-> 0]
       ELSE IF Direction(vecs, w) = ZeroVec
       THEN [dir |-> ZeroVec, conf |-> 0]
       ELSE [dir |-> Direction(vecs, w),
             conf |-> Min(SumOver(w, 1..num_channels), Million)]

\* goertzel, in thousandths as the samples are.  With sample_rate 480 and a
\* window of 4 samples the targets 120 and 240 fall on k = 1 and k = 2,
\* where omega is a multiple of a quarter turn and its sine and cosine are
\* whole numbers.
sample_rate == 480
goertzel(samples, target_freq) ==
    LET N == Len(samples)
        \* int(0.5 + (N * target_freq) / sample_rate)
        k == (2 * N * target_freq + sample_rate) \div (2 * sample_rate)
        quarter == ((4 * k) \div N) % 4
        cosine == <<1, 0, -1, 0>>[quarter + 1]
        sine == <<0, 1, 0, -1>>[quarter + 1]
        RECURSIVE Loop(_, _, _)
        Loop(i, q1, q2) ==
            IF i > N THEN <<q1, q2>>
            ELSE Loop(i + 1, 2 * cosine * q1 - q2 + samples[i], q1)
        Magnitude(q) ==
            Isqrt((q[1] - q[2] * cosine) * (q[1] - q[2] * cosine)
                  + (q[2] * sine) * (q[2] * sine))
    IN Magnitude(Loop(1, 0, 0)) \div N

\* Band powers taken on the last channel: not what the code does, and
\* C32_ChannelZeroOnly tells the two apart.
Bands_last_channel(window) ==
    <<goertzel(window[num_channels], 120), goertzel(window[num_channels], 240)>>

\* band_120 and band_240 of _emit_frame: goertzel on window[0].
Bands(window) == <<goertzel(window[1], 120), goertzel(window[1], 240)>>

FrameResult(timestamp, mic_rms, crest, bandpower, total_energy, present, dir_local, dir_conf, noise_rms) ==
    [timestamp |-> timestamp, mic_rms |-> mic_rms, crest |-> crest,
     bandpower |-> bandpower, total_energy |-> total_energy,
     present |-> present, dir_local |-> dir_local, dir_conf |-> dir_conf,
     noise_rms |-> noise_rms]

\* FeatureExtractor.__init__
FeatureExtractor ==
    [buffer |-> [buffer |-> [c \in 1..num_channels |->
                               [i \in 1..window_samples |-> 0]],
                 pos |-> 0, filled |-> FALSE],
     pending |-> 0, vecs |-> DirectionEstimator(
                 [c \in 1..num_channels |->
                     IF c % 2 = 1 THEN <<3, 4, 0>> ELSE <<-6, -8, 0>>]),
     level |-> NoiseInit, last_present |-> FALSE]

\* FeatureExtractor._emit_frame at time `now` on a window that is not
\* empty: the extractor after it and the frame it returns.  The crest is in
\* thousandths.
_emit_frame(e, now) ==
    LET Abs(x) == IF x < 0 THEN -x ELSE x
        \* np.sqrt(np.mean(window**2, axis=1))
        Rms(window) ==
            [c \in 1..num_channels |->
                1000 * Isqrt(SumOver([i \in 1..Len(window[c]) |->
                                        window[c][i] * window[c][i]],
                                     1..Len(window[c]))
                             \div Len(window[c]))]
        \* float(np.sum(noise) + 1e-6)
        NoiseSum(noise) == SumOver(noise, 1..num_channels) + 1
        RECURSIVE Peak(_, _)
        Peak(xs, i) == IF i > Len(xs) THEN 0 ELSE Max(Abs(xs[i]), Peak(xs, i + 1))
        From(window, rms, noise) ==
            LET total_energy == SumOver(rms, 1..num_channels)
                present == Detect(total_energy, NoiseSum(noise), e.last_present)
                level == update(noise, rms, present)
                Framed1(est) ==
                    FrameResult(now, rms,
                                [c \in 1..num_channels |->
                                    (Million * Peak(window[c], 1))
                                        \div (rms[c] + 1)],
                                Bands(window),
                                total_energy, present, est.dir, est.conf,
                                level)
            IN [fe |-> [e EXCEPT !.level = level, !.last_present = present],
                frame |-> Framed1(estimate(e.vecs,
                                           [c \in 1..num_channels |->
                                               Max(rms[c] - noise[c], 0)]))]
    IN From(view(e.buffer), Rms(view(e.buffer)), e.level)

\* FeatureExtractor.push: the extractor after it, the frames it returns,
\* and whether _emit_frame raised RuntimeError.
RECURSIVE Emitting(_, _, _)
Emitting(e, now, frames) ==
    LET Next1(r) ==
            Emitting([r.fe EXCEPT !.pending = @ - frame_hop], now,
                     Append(frames, r.frame))
    IN IF e.pending < frame_hop
       THEN [fe |-> e, frames |-> frames, raised |-> FALSE]
       ELSE IF Len(view(e.buffer)[1]) = 0
       THEN [fe |-> e, frames |-> frames, raised |-> TRUE]
       ELSE Next1(_emit_frame(e, now))

\* A push with `if` for `while`: not what the code does, and
\* C13_OneFramePerHop tells the two apart.
push_one_frame(e, now, samples) ==
    LET One(a, r) ==
            IF a.pending < frame_hop
            THEN [fe |-> a, frames |-> <<>>, raised |-> FALSE]
            ELSE [fe |-> [r.fe EXCEPT !.pending = @ - frame_hop],
                  frames |-> <<r.frame>>, raised |-> FALSE]
        Fed(a) == One(a, _emit_frame(a, now))
    IN Fed([e EXCEPT !.buffer = append(e.buffer, samples),
                     !.pending = @ + Len(samples[1])])

\* A push that takes the block in sample by sample and computes each frame
\* as soon as its hop is in: not what the code does, and C37_SameWindow
\* tells the two apart.
push_hop_by_hop(e, now, samples) ==
    LET RECURSIVE Feed(_, _, _)
        Feed(a, i, frames) ==
            LET Fed(r) == Feed(r.fe, i + 1, frames \o r.frames)
            IN IF i > Len(samples[1])
               THEN [fe |-> a, frames |-> frames, raised |-> FALSE]
               ELSE Fed(Emitting([a EXCEPT
                                    !.buffer = append(a.buffer,
                                                      [c \in 1..num_channels |->
                                                          <<samples[c][i]>>]),
                                    !.pending = @ + 1], now, <<>>))
    IN Feed(e, 1, <<>>)

\* A push that computes its frames before it appends the block: not what
\* the code does, and C27_NeverInsufficient tells the two apart.
push_emit_first(e, now, samples) ==
    LET Fed(r) == [r EXCEPT !.fe.buffer = append(e.buffer, samples)]
    IN Fed(Emitting([e EXCEPT !.pending = @ + Len(samples[1])], now, <<>>))

\* push: append, pending += n, then a frame per whole hop pending.
push(e, now, samples) ==
    Emitting([e EXCEPT !.buffer = append(e.buffer, samples),
                       !.pending = @ + Len(samples[1])], now, <<>>)

(***************************************************************************)
(* The server: receiver, liveness sweep, engine thread and reader.         *)
(***************************************************************************)
NoFrames == <<>>
\* hist.last: the store operation of the last step, the node it was for, and
\* whether it replaced a frame of a higher seq.  hist.tick: the published
\* FusionState and the engine's last_position and velocity as the engine's
\* latest tick found them.  hist.sent: per node, the
\* frame of the latest update_frame call.
Did(op, node, older) == [op |-> op, node |-> node, older |-> older]

\* FrameStore.__init__ (state_store.py:44-47) and
\* LocalizationEngine.__init__ (localization.py:37-43).
\* Nothing searched yet.
NoProbe ==
    [searched |-> FALSE, self |-> Engine, nodes |-> <<>>, frames |-> <<>>,
     normalized |-> <<>>, best |-> [point |-> ZeroVec, err |-> Inf],
     refined |-> ZeroVec, trace |-> <<>>, points |-> <<>>,
     fusion |-> FusionState(0, FALSE, ZeroVec, ZeroVec, 0, 0, {})]

Init ==
    /\ nodes = <<>>
    /\ heap = <<FusionState(0, FALSE, ZeroVec, ZeroVec, 0, 0, {})>>
    /\ fusion_state = 1
    /\ clock = 0
    /\ eng_pc = "idle"
    /\ eng_frames = NoFrames
    /\ eng_state = 0
    /\ last_position = ZeroVec
    /\ velocity = ZeroVec
    /\ ticks = 0
    /\ rd_ref = 0
    /\ rd_seen = [present |-> FALSE, confidence |-> 0]
    /\ net = <<>>
    /\ rx = [kind |-> "none", pkt |-> 0, out |-> Pending, dropped |-> FALSE]
    /\ fe = FeatureExtractor
    /\ pushed = [count |-> 0, seq |-> 0, seqs |-> <<>>, sent |-> <<>>,
                 lost |-> FALSE, packets |-> <<>>,
                 frames |-> <<>>, raised |-> FALSE,
                 level |-> NoiseInit, last_present |-> FALSE,
                 n |-> 0, pending |-> 0, samples |-> 0, emitted |-> 0]
    /\ rb = FeatureExtractor.buffer
    /\ ring = [count |-> 0, appended |-> [c \in 1..num_channels |-> <<>>],
               n |-> 0, pos |-> 0]
    /\ probe = NoProbe
    /\ loop = [pc |-> "new", now |-> 0, t0 |-> 0, next_time |-> 0, k |-> 0,
               sleep |-> 0, starts |-> <<>>, took |-> <<>>, sleeps |-> <<>>]
    /\ stop = [set |-> FALSE, returned |-> FALSE, pc |-> "", fusion |-> 0,
               frames |-> NoFrames, state |-> 0, heap |-> 0]
    /\ sampler = [lists |-> << <<>> >>, lock |-> "", run_pc |-> "top",
                  block |-> 0, reads |-> 0, pop_pc |-> "idle", blocks |-> 0,
                  pops |-> 0, returned |-> <<>>]
    /\ cal = [jobs |-> <<>>, order |-> <<>>, pc |-> "idle", todo |-> <<>>,
              averages |-> <<>>, saved |-> <<>>, alive |-> TRUE, started |-> 0,
              last |-> [op |-> "init", node |-> 0, now |-> 0]]
    /\ snap = [lock |-> "", pc |-> "idle", todo |-> {}, acc |-> <<>>,
               have |-> FALSE, ret |-> <<>>, at |-> <<>>, was |-> <<>>,
               gets |-> 0]
    /\ hist = [last |-> Did("init", 0, FALSE), sent |-> <<>>,
               tick |-> [state |-> FusionState(0, FALSE, ZeroVec, ZeroVec, 0, 0, {}),
                         last_position |-> ZeroVec, velocity |-> ZeroVec]]

\* Time passes, up to `until`.
Advance(until) ==
    /\ clock < until
    /\ clock' = clock + 1
    /\ hist' = [hist EXCEPT !.last = Did("tick", 0, FALSE)]
    /\ UNCHANGED <<nodes, fusion_state, heap>>
    /\ UNCHANGED engVars
    /\ UNCHANGED <<rdVars, netVars, dspVars, searchVars, otherVars>>

\* datagram_received with a valid packet (fusion_receiver.py:33-48): the
\* frame goes to update_frame.  Datagrams come in any order, so any seq.
Receive(ids, seqs, kinds) ==
    \E n \in ids, s \in seqs, k \in kinds:
        LET frame == InputFrame(n, s, 0, k)
        IN /\ nodes' = update_frame(nodes, frame, clock)
           /\ hist' = [last |-> Did("update_frame", n,
                                    /\ n \in DOMAIN nodes
                                    /\ nodes[n].last_frame.seq > s),
                       sent |-> [m \in DOMAIN hist.sent \cup {n} |->
                                   IF m = n THEN frame ELSE hist.sent[m]],
                       tick |-> hist.tick]
           /\ UNCHANGED <<fusion_state, heap, clock>>
           /\ UNCHANGED engVars
           /\ UNCHANGED <<rdVars, netVars, dspVars, searchVars, otherVars>>

\* The sweep of run_receiver (fusion_receiver.py:60-62): mark_offline().
MarkOffline ==
    /\ nodes' = mark_offline(nodes, clock, OfflineTimeout)
    /\ hist' = [hist EXCEPT !.last = Did("mark_offline", 0, FALSE)]
    /\ UNCHANGED <<fusion_state, heap, clock>>
    /\ UNCHANGED engVars
    /\ UNCHANGED <<rdVars, netVars, dspVars, searchVars, otherVars>>

Next ==
    \/ Advance(MaxTime)
    \/ Receive(NodeIds, 1..MaxSeq, PresenceKinds)
    \/ MarkOffline

Spec == Init /\ [][Next]_vars

(***************************************************************************)
(* FrameStore claims, under Spec.                                          *)
(***************************************************************************)
\* C2: update_frame is a last-writer-wins upsert per node.  In every state
\* get_frames()[n] is the frame of the most recent update_frame call for n,
\* whatever its seq; and the step of an update_frame call for n leaves n
\* online with that frame and last_seen = the time of the call, adds n to
\* the map if it was not there, and changes no other node's entry.
C2_Latest ==
    /\ DOMAIN get_frames(nodes) = DOMAIN hist.sent
    /\ \A n \in DOMAIN hist.sent: get_frames(nodes)[n] = hist.sent[n]

C2_Upsert ==
    hist'.last.op = "update_frame" =>
        LET n == hist'.last.node
        IN /\ DOMAIN nodes' = DOMAIN nodes \cup {n}
           /\ nodes'[n].last_frame = hist'.sent[n]
           /\ nodes'[n].last_seen = clock
           /\ nodes'[n].online
           /\ \A m \in DOMAIN nodes \ {n}: nodes'[m] = nodes[m]

C2_LastWriterWins == []C2_Latest /\ [][C2_Upsert]_vars

\* C2's case: a frame with a lower seq has just replaced a stored frame with
\* a higher one, while another node is in the map.
C2_Witness ==
    /\ hist.last.op = "update_frame"
    /\ hist.last.older
    /\ nodes[hist.last.node].last_frame = hist.sent[hist.last.node]
    /\ DOMAIN nodes # {hist.last.node}

\* C3: get_frames has an entry, the latest frame, for every node that has
\* ever had a frame stored, whether the node is online or not; no step
\* removes a node from it, and a sweep leaves it as it is.
C3_EveryReporter ==
    \A n \in DOMAIN hist.sent:
        /\ n \in DOMAIN get_frames(nodes)
        /\ get_frames(nodes)[n] = hist.sent[n]

C3_NoneRemoved ==
    /\ DOMAIN get_frames(nodes) \subseteq DOMAIN get_frames(nodes')
    /\ hist'.last.op = "mark_offline" => get_frames(nodes') = get_frames(nodes)

C3_FramesOutliveLiveness == []C3_EveryReporter /\ [][C3_NoneRemoved]_vars

\* C3's case: a node that is offline is still in get_frames, with its frame.
C3_Witness ==
    \E n \in DOMAIN nodes:
        /\ ~nodes[n].online
        /\ n \in DOMAIN get_frames(nodes)
        /\ get_frames(nodes)[n] = hist.sent[n]

Stale(n) == clock - nodes[n].last_seen > 2

\* C38: every node of the map has a last_frame, and its node_id is the key;
\* get_frames and get_node_health report the same node ids; and a node is
\* in the map, online or not, only once a frame of it has been stored.
C38_EveryEntryHasItsFrame ==
    /\ \A n \in DOMAIN nodes:
          /\ nodes[n].last_frame # <<>>
          /\ nodes[n].last_frame.node_id = n
          /\ n \in DOMAIN hist.sent
          /\ get_node_health(nodes)[n].online = nodes[n].online
    /\ DOMAIN get_frames(nodes) = DOMAIN get_node_health(nodes)
    /\ DOMAIN get_node_health(nodes) = DOMAIN hist.sent

\* One node has reported and has been swept offline, the other has not
\* reported: both methods report the first one only.
C38_Witness ==
    /\ Cardinality(DOMAIN nodes) = 1
    /\ \E n \in DOMAIN nodes: ~nodes[n].online
    /\ hist.last.op = "mark_offline"
    /\ DOMAIN get_frames(nodes) = DOMAIN get_node_health(nodes)

\* C4: a sweep sets online = false for exactly the nodes with
\* now - last_seen > 2.0 and changes no last_frame or last_seen; so after a
\* sweep every such node is offline and still in get_frames; a node goes
\* offline only in a sweep that finds it past the timeout; and a node comes
\* back online only in an update_frame for it.
C4_Sweep ==
    hist'.last.op = "mark_offline" =>
        /\ DOMAIN nodes' = DOMAIN nodes
        /\ \A n \in DOMAIN nodes:
              /\ nodes'[n].online = (nodes[n].online /\ ~Stale(n))
              /\ nodes'[n].last_frame = nodes[n].last_frame
              /\ nodes'[n].last_seen = nodes[n].last_seen

C4_Flips ==
    \A n \in DOMAIN nodes:
        /\ (nodes[n].online /\ ~nodes'[n].online) =>
               (hist'.last.op = "mark_offline" /\ Stale(n))
        /\ (~nodes[n].online /\ nodes'[n].online) =>
               (hist'.last.op = "update_frame" /\ hist'.last.node = n)

C4_AfterSweep ==
    hist.last.op = "mark_offline" =>
        \A n \in DOMAIN nodes:
            Stale(n) => (~nodes[n].online /\ n \in DOMAIN get_frames(nodes))

C4_Liveness == []C4_AfterSweep /\ [][C4_Sweep /\ C4_Flips]_vars

\* C4's case: a sweep has just run with one node past the timeout, now
\* offline, and another exactly at the timeout, still online.
C4_Witness ==
    /\ hist.last.op = "mark_offline"
    /\ \E n \in DOMAIN nodes: Stale(n) /\ ~nodes[n].online
    /\ \E n \in DOMAIN nodes: clock - nodes[n].last_seen = 2 /\ nodes[n].online

(***************************************************************************)
(* The engine thread (localization.py:51-102) and a reader of the          *)
(* FusionState (web/app.py:50-53, 105-119), beside the receiver.           *)
(***************************************************************************)
\* _run: frames = self.store.get_frames() (localization.py:56).
EngGetFrames ==
    /\ eng_pc = "idle"
    /\ ~stop.set
    /\ ticks < MaxTicks
    /\ ticks' = ticks + 1
    /\ eng_frames' = get_frames(nodes)
    /\ eng_pc' = "localize"
    /\ hist' = [hist EXCEPT !.tick = [state |-> heap[fusion_state],
                                      last_position |-> last_position,
                                      velocity |-> velocity]]
    /\ UNCHANGED <<eng_state, last_position, velocity>>
    /\ UNCHANGED <<storeVars, rdVars, netVars, dspVars, searchVars, otherVars>>

\* A tick that takes fewer than 2 frames for silence: not what the code
\* does, and C15_SkipIsNoOp tells the two apart.
EngSkipAsSilence ==
    /\ eng_pc = "localize"
    /\ Cardinality(DOMAIN eng_frames) < 2
    /\ eng_state' = fusion_state
    /\ eng_pc' = "silent_present"
    /\ UNCHANGED <<eng_frames, last_position, velocity, ticks>>
    /\ UNCHANGED <<storeVars, rdVars, netVars, hist, dspVars, searchVars, otherVars>>

\* _localize with fewer than 2 frames returns None and _run publishes
\* nothing (localization.py:65-66, 58).
EngSkip ==
    /\ eng_pc = "localize"
    /\ Cardinality(DOMAIN eng_frames) < 2
    /\ eng_pc' = "idle"
    /\ eng_frames' = NoFrames
    /\ UNCHANGED <<eng_state, last_position, velocity, ticks>>
    /\ UNCHANGED <<storeVars, rdVars, netVars, hist, dspVars, searchVars, otherVars>>

\* No present node: state = self.store.get_fusion_state()
\* (localization.py:70-71).
EngSilentGet ==
    /\ eng_pc = "localize"
    /\ Cardinality(DOMAIN eng_frames) >= 2
    /\ present_nodes(eng_frames) = {}
    /\ eng_state' = fusion_state
    /\ eng_pc' = "silent_present"
    /\ UNCHANGED <<eng_frames, last_position, velocity, ticks>>
    /\ UNCHANGED <<storeVars, rdVars, netVars, hist, dspVars, searchVars, otherVars>>

\* state.present = False (localization.py:72), outside the lock.
EngSilentPresent ==
    /\ eng_pc = "silent_present"
    /\ heap' = [heap EXCEPT ![eng_state].present = FALSE]
    /\ eng_pc' = "silent_confidence"
    /\ UNCHANGED <<nodes, fusion_state, clock>>
    /\ UNCHANGED <<eng_frames, eng_state, last_position, velocity, ticks>>
    /\ UNCHANGED <<rdVars, netVars, hist, dspVars, searchVars, otherVars>>

\* A silent tick that forgets the track: not what the code does, and
\* C16_SilenceKeepsTrack tells the two apart.
EngSilentConfidenceReset ==
    /\ eng_pc = "silent_confidence"
    /\ heap' = [heap EXCEPT ![eng_state].confidence = 0,
                            ![eng_state].position = ZeroVec]
    /\ eng_pc' = "publish"
    /\ UNCHANGED <<nodes, fusion_state, clock>>
    /\ UNCHANGED <<eng_frames, eng_state, last_position, velocity, ticks>>
    /\ UNCHANGED <<rdVars, netVars, hist, dspVars, searchVars, otherVars>>

\* state.confidence = 0.0; return state (localization.py:73-74).
EngSilentConfidence ==
    /\ eng_pc = "silent_confidence"
    /\ heap' = [heap EXCEPT ![eng_state].confidence = 0]
    /\ eng_pc' = "publish"
    /\ UNCHANGED <<nodes, fusion_state, clock>>
    /\ UNCHANGED <<eng_frames, eng_state, last_position, velocity, ticks>>
    /\ UNCHANGED <<rdVars, netVars, hist, dspVars, searchVars, otherVars>>

\* A detecting tick that publishes the new velocity and keeps the old one:
\* not what the code does, and C35_EngineOwnsTrack tells the two apart.
Allocate_keeps_velocity(r) ==
    /\ last_position' = r.position
    /\ velocity' = velocity
    /\ heap' = Append(heap, r.fusion)

\* Some node present: grid search, refinement, smoothing and a new
\* FusionState object (localization.py:75-102).
Allocate(r) ==
    /\ last_position' = r.position
    /\ velocity' = r.velocity
    /\ heap' = Append(heap, r.fusion)

EngDetect ==
    /\ eng_pc = "localize"
    /\ Cardinality(DOMAIN eng_frames) >= 2
    /\ present_nodes(eng_frames) # {}
    /\ Allocate(Localized(eng_frames, clock, heap[fusion_state].timestamp,
                          last_position, velocity))
    /\ eng_state' = Len(heap) + 1
    /\ eng_pc' = "publish"
    /\ UNCHANGED <<nodes, fusion_state, clock>>
    /\ UNCHANGED <<eng_frames, ticks>>
    /\ UNCHANGED <<rdVars, netVars, hist, dspVars, searchVars, otherVars>>

\* _run: self.store.update_fusion_state(fusion_state) (localization.py:58-59).
EngPublish ==
    /\ eng_pc = "publish"
    /\ fusion_state' = eng_state
    /\ eng_pc' = "idle"
    /\ eng_frames' = NoFrames
    /\ eng_state' = 0
    /\ UNCHANGED <<nodes, heap, clock>>
    /\ UNCHANGED <<last_position, velocity, ticks>>
    /\ UNCHANGED <<rdVars, netVars, hist, dspVars, searchVars, otherVars>>

\* The emit loop and the status API: state = STORE.get_fusion_state()
\* (app.py:53, 113).
ReaderGet ==
    /\ rd_ref = 0
    /\ rd_ref' = fusion_state
    /\ UNCHANGED rd_seen
    /\ UNCHANGED <<storeVars, engVars, netVars, hist, dspVars, searchVars, otherVars>>

\* ... then state.__dict__ is serialized (app.py:53, 115).
ReaderEmit ==
    /\ rd_ref # 0
    /\ rd_seen' = [present |-> heap[rd_ref].present,
                   confidence |-> heap[rd_ref].confidence]
    /\ rd_ref' = 0
    /\ UNCHANGED <<storeVars, engVars, netVars, hist, dspVars, searchVars, otherVars>>

\* The receiver beside the engine: the frames of EngineNodes.
NextEngine ==
    \/ Receive(EngineNodes, {1}, FrameKinds)
    \/ EngGetFrames
    \/ EngSkip
    \/ EngSilentGet
    \/ EngSilentPresent
    \/ EngSilentConfidence
    \/ EngDetect
    \/ EngPublish
    \/ ReaderGet
    \/ ReaderEmit

SpecEngine == Init /\ [][NextEngine]_vars

\* The engine beside the receiver and its liveness sweep
\* (fusion_receiver.py:31-62, localization.py:51-62), for as long as it
\* takes a silent node to be swept offline.
NextOffline ==
    \/ Advance(OfflineTimeout + 1)
    \/ Receive(EngineNodes, {1}, PresenceKinds)
    \/ MarkOffline
    \/ EngGetFrames
    \/ EngSkip
    \/ EngSilentGet
    \/ EngSilentPresent
    \/ EngSilentConfidence
    \/ EngDetect
    \/ EngPublish

SpecOffline == Init /\ [][NextOffline]_vars

\* C34: the engine does not read liveness flags.  A tick takes the last
\* frame of every node of the store, online or not; a tick that took two or
\* more frames, one of them present, publishes present = true; and the
\* published present goes from true to false only in a tick that took no
\* present frame.
C34_Snapshot ==
    (eng_pc = "idle" /\ eng_pc' = "localize") =>
        /\ DOMAIN eng_frames' = DOMAIN nodes
        /\ \A n \in DOMAIN nodes: eng_frames'[n] = nodes[n].last_frame

C34_Published ==
    (eng_pc = "publish" /\ eng_pc' = "idle"
     /\ \E n \in DOMAIN eng_frames: eng_frames[n].present) =>
        /\ heap'[fusion_state'].present
        /\ fusion_state' = eng_state

C34_NoReturn ==
    (heap[fusion_state].present /\ ~heap'[fusion_state'].present) =>
        /\ Cardinality(DOMAIN eng_frames) >= 2
        /\ present_nodes(eng_frames) = {}

C34_LivenessIgnored == [][C34_Snapshot /\ C34_Published /\ C34_NoReturn]_vars

\* A node whose last frame is present has been swept offline, and the tick
\* that started after the sweep has published present = true.
C34_Witness ==
    /\ eng_pc = "idle"
    /\ heap[fusion_state].present
    /\ heap[fusion_state].timestamp > OfflineTimeout
    /\ \E n \in DOMAIN nodes:
          /\ ~nodes[n].online
          /\ nodes[n].last_frame.present
          /\ heap[fusion_state].timestamp > nodes[n].last_seen + OfflineTimeout
          /\ \E d \in heap[fusion_state].node_details: d.id = n

(***************************************************************************)
(* Published fusion state, under SpecEngine.                               *)
(***************************************************************************)
\* C1: a reader of the published fusion state never observes a partially
\* updated one.  Every state the engine publishes whole has confidence 0
\* when present is false, so a reader that serialises present = false with
\* a confidence other than 0 has seen one write of a revision and not the
\* other.
C1_ReaderNeverSeesPartialUpdate ==
    ~(rd_seen.present = FALSE /\ rd_seen.confidence # 0)

\* What C1 rests on: no step changes a field of an object the store has
\* already handed out as the current state.
C1_PublishedObjectsImmutable ==
    [][\A r \in 1..fusion_state: r \in DOMAIN heap' /\ heap'[r] = heap[r]]_vars

\* C15: a tick whose snapshot has fewer than 2 nodes ends at once, with
\* nothing published and the FusionState, last_position and velocity as
\* they were.
C15_Step ==
    eng_pc = "localize" /\ Cardinality(DOMAIN eng_frames) < 2
                        /\ eng_pc' # eng_pc
        => /\ eng_pc' = "idle"
           /\ fusion_state' = fusion_state
           /\ heap' = heap
           /\ last_position' = last_position
           /\ velocity' = velocity

C15_SkipIsNoOp ==
    /\ [][C15_Step]_vars
    /\ [](eng_pc = "localize" /\ Cardinality(DOMAIN eng_frames) < 2
             => /\ heap[fusion_state] = hist.tick.state
                /\ last_position = hist.tick.last_position
                /\ velocity = hist.tick.velocity)

\* A tick has run and ended with one node in the store.
C15_Witness ==
    /\ eng_pc = "idle"
    /\ ticks >= 1
    /\ Cardinality(DOMAIN nodes) = 1

\* C16: the FusionState a silent tick publishes is the prior one with
\* present false and confidence 0, every other field as it was, and the
\* engine's last_position and velocity are as the tick found them.
C16_Publish ==
    eng_pc = "publish" /\ eng_pc' = "idle" /\ present_nodes(eng_frames) = {}
        => /\ heap'[fusion_state'] = [hist.tick.state EXCEPT !.present = FALSE,
                                                             !.confidence = 0]
           /\ last_position' = hist.tick.last_position
           /\ velocity' = hist.tick.velocity

C16_SilenceKeepsTrack == [][C16_Publish]_vars

\* A silent tick has ended after a detecting one: the published state is
\* not present, and holds the position the detecting tick gave it.
C16_Witness ==
    /\ eng_pc = "idle"
    /\ hist.tick.state.present
    /\ hist.tick.state.confidence > 0
    /\ ~heap[fusion_state].present
    /\ heap[fusion_state].confidence = 0
    /\ heap[fusion_state].position = hist.tick.state.position
    /\ heap[fusion_state].position # ZeroVec

\* C35: between ticks the published FusionState has the engine's
\* last_position and velocity as its position and velocity, the origin until
\* the first detecting tick; only the engine's publish step changes the
\* published state, only a detecting tick changes last_position or velocity,
\* and it changes them to what it is about to publish.
C35_AtRest ==
    eng_pc = "idle" =>
        /\ heap[fusion_state].position = last_position
        /\ heap[fusion_state].velocity = velocity
        /\ ticks = 0 => last_position = ZeroVec /\ velocity = ZeroVec

C35_Step ==
    /\ (last_position' # last_position \/ velocity' # velocity) =>
          /\ eng_pc = "localize" /\ eng_pc' = "publish"
          /\ present_nodes(eng_frames) # {}
          /\ heap'[eng_state'].position = last_position'
          /\ heap'[eng_state'].velocity = velocity'
    /\ (heap'[fusion_state'].position # heap[fusion_state].position
        \/ heap'[fusion_state'].velocity # heap[fusion_state].velocity) =>
          /\ eng_pc = "publish" /\ eng_pc' = "idle"
          /\ fusion_state' = eng_state

C35_EngineOwnsTrack == []C35_AtRest /\ [][C35_Step]_vars

\* A silent tick after a detecting one: nothing is present any more, and
\* the published state still has the engine's position and velocity.
C35_Witness ==
    /\ eng_pc = "idle"
    /\ ticks = 2
    /\ ~heap[fusion_state].present
    /\ last_position # ZeroVec
    /\ velocity # ZeroVec
    /\ heap[fusion_state].position = last_position
    /\ heap[fusion_state].velocity = velocity

\* C20: a FusionState published with present true has for error the least
\* cost over the grid and for confidence max(0, 1 - error); one published
\* with present false has confidence 0; and no confidence is negative.
C20_Publish ==
    eng_pc = "publish" /\ eng_pc' = "idle"
        => LET s == heap'[fusion_state']
               cost == [i \in DOMAIN GridPoints(grid_bounds, grid_step) |->
                          _point_error(Engine,
                                       GridPoints(grid_bounds, grid_step)[i],
                                       eng_frames,
                                       normalize_energies(
                                           [n \in DOMAIN eng_frames |->
                                               eng_frames[n].total_energy]))]
           IN /\ s.confidence >= 0
              /\ ~s.present => s.confidence = 0
              /\ s.present =>
                    /\ \A i \in DOMAIN cost: cost[i] >= s.error
                    /\ \E i \in DOMAIN cost: cost[i] = s.error
                    /\ s.confidence = Max(0, Million - s.error)

C20_Confidence == [][C20_Publish]_vars

\* A detecting tick has published a state whose error is not 0.
C20_Witness ==
    /\ eng_pc = "idle"
    /\ heap[fusion_state].present
    /\ heap[fusion_state].error > 0
    /\ heap[fusion_state].confidence = Million - heap[fusion_state].error

(***************************************************************************)
(* Node to server over UDP: to_payload on one side, datagram_received on   *)
(* the other, one datagram in flight at a time.                            *)
(***************************************************************************)
\* NodeAgent._send(pkt) (node_agent.py:78, 99) for one of the packets.
Send(ks) ==
    \E k \in ks:
        /\ net = <<>>
        /\ net' = <<to_payload(Packets[k])>>
        /\ rx' = [kind |-> "packet", pkt |-> k, out |-> Pending,
                  dropped |-> rx.dropped]
        /\ UNCHANGED <<storeVars, engVars, rdVars, hist, dspVars, searchVars, otherVars>>

\* A sender other than NodeAgent: a record of Bare, framed with its CRC.
SendBare ==
    \E k \in 1..Len(Bare):
        /\ net = <<>>
        /\ net' = <<Framed(Serialized(<<"dict", Bare[k]>>))>>
        /\ rx' = [kind |-> "bare", pkt |-> k, out |-> Pending,
                  dropped |-> rx.dropped]
        /\ UNCHANGED <<storeVars, engVars, rdVars, hist, dspVars, searchVars, otherVars>>

\* A datagram that is not a packet arrives at the socket.
Garbage ==
    \E m \in 1..Len(Malformed):
        /\ net = <<>>
        /\ net' = <<Malformed[m].data>>
        /\ rx' = [kind |-> "malformed", pkt |-> m, out |-> Pending,
                  dropped |-> rx.dropped]
        /\ UNCHANGED <<storeVars, engVars, rdVars, hist, dspVars, searchVars, otherVars>>

\* The network inverts one bit, b of byte i, of the payload portion of a
\* packet.
FlipBit ==
    /\ net # <<>>
    /\ rx.kind = "packet"
    /\ \E i \in 1..(LastBar(net[1]) - 1), b \in 0..7:
          net' = <<[j \in 1..Len(net[1]) |->
                     IF j = i THEN Xor8(net[1][j], 2 ^ b) ELSE net[1][j]]>>
    /\ rx' = [rx EXCEPT !.kind = "flipped"]
    /\ UNCHANGED <<storeVars, engVars, rdVars, hist, dspVars, searchVars, otherVars>>

\* datagram_received: update_frame with the frame, or a logged warning.
Delivered(out) ==
    /\ nodes' = IF out.stored THEN update_frame(nodes, out.frame, clock)
                ELSE nodes
    /\ rx' = [rx EXCEPT !.out = out,
                         !.dropped = @ \/ (rx.kind = "malformed" /\ ~out.stored)]
    /\ net' = <<>>
    /\ UNCHANGED <<fusion_state, heap, clock, engVars, rdVars, hist,
                   dspVars, searchVars, otherVars>>

Deliver ==
    /\ net # <<>>
    /\ Delivered(datagram_received(net[1]))

NextCodec ==
    \/ Send(1..Len(Packets))
    \/ SendBare
    \/ Garbage
    \/ Deliver

SpecCodec == Init /\ [][NextCodec]_vars

NextFlip ==
    \/ Send(FlipPackets)
    \/ FlipBit
    \/ Deliver

SpecFlip == Init /\ [][NextFlip]_vars

(***************************************************************************)
(* Codec claims, under SpecCodec and SpecFlip.                             *)
(***************************************************************************)
\* C5: a malformed datagram (no "|", a CRC that does not match, a payload
\* that is not UTF-8 or not JSON, a record without node_id, seq or ts_us)
\* is dropped: datagram_received ends in the logged exception that belongs
\* to the defect and leaves every node's entry as it was; and a packet
\* delivered after such a drop is stored.
C5_DroppedWhole ==
    (net # <<>> /\ net' = <<>> /\ rx.kind = "malformed") =>
        /\ ~rx'.out.stored
        /\ rx'.out.exc \in {"ValueError", "KeyError"}
        /\ rx'.out.msg = Malformed[rx.pkt].msg
        /\ nodes' = nodes

C5_ValidStillStored ==
    (net # <<>> /\ net' = <<>> /\ rx.kind = "packet" /\ rx.dropped) =>
        /\ rx'.out.stored
        /\ rx'.out.frame.extra = Merged(Packets[rx.pkt])
        /\ rx'.out.frame.node_id \in DOMAIN nodes'
        /\ nodes'[rx'.out.frame.node_id] = NodeState(rx'.out.frame, clock, TRUE)

C5_MalformedDropped == [][C5_DroppedWhole /\ C5_ValidStillStored]_vars

\* C5's case: a malformed datagram has been dropped while the store held a
\* frame, and a packet delivered after it is now stored.
C5_Witness ==
    /\ rx.dropped
    /\ rx.kind = "packet"
    /\ net = <<>>
    /\ rx.out.stored
    /\ nodes[rx.out.frame.node_id].last_frame = rx.out.frame

\* C33: a record with a valid CRC that lacks optional fields is stored as a
\* Frame with the defaults: present false, empty lists for mic_rms,
\* noise_rms, crest, bandpower and dir_local, dir_conf 0.0, and total_energy
\* the sum of mic_rms; and a heartbeat of NodeAgent is stored as a frame with
\* present false and total_energy 0 that is the node's frame from then on.
C33_Frame ==
    (rx.kind = "bare" /\ net = <<>>) =>
        LET items == Bare[rx.pkt]
            f == rx.out.frame
            absent(key) == ~HasKey(items, key)
        IN /\ rx.out.stored
           /\ absent(Key.present) => f.present = FALSE
           /\ absent(Key.mic_rms) => f.mic_rms = <<>>
           /\ absent(Key.noise_rms) => f.noise_rms = <<>>
           /\ absent(Key.crest) => f.crest = <<>>
           /\ absent(Key.bandpower) => f.bandpower = <<>>
           /\ absent(Key.dir_local) => f.dir_local = <<>>
           /\ absent(Key.dir_conf) => f.dir_conf = 0
           /\ absent(Key.total_energy) =>
                 f.total_energy = SumOver(f.mic_rms, DOMAIN f.mic_rms)
           /\ nodes[f.node_id].last_frame = f

C33_Heartbeat ==
    (net # <<>> /\ net' = <<>> /\ rx.kind = "packet" /\ rx.pkt = 2) =>
        /\ rx'.out.stored
        /\ rx'.out.frame.present = FALSE
        /\ rx'.out.frame.total_energy = 0
        /\ nodes'[Packets[2].node_id].last_frame = rx'.out.frame
        /\ nodes'[Packets[2].node_id].last_frame.seq = Packets[2].seq

C33_Defaults == []C33_Frame /\ [][C33_Heartbeat]_vars

\* A record without total_energy has been stored with the sum of its
\* mic_rms, in place of the frame the node had sent before.
C33_Witness ==
    /\ rx.kind = "bare"
    /\ net = <<>>
    /\ ~HasKey(Bare[rx.pkt], Key.total_energy)
    /\ rx.out.stored
    /\ rx.out.frame.total_energy > 0
    /\ rx.out.frame.noise_rms = <<>>
    /\ nodes[rx.out.frame.node_id].last_frame = rx.out.frame

\* C6: every packet decodes to a frame with the packet's own node_id, seq,
\* present, mic_rms, noise_rms, crest, bandpower, dir_local and dir_conf,
\* and with every item of its extra in the decoded record.
C6_SameFields(f, p) ==
    /\ f.node_id = p.node_id
    /\ f.seq = p.seq
    /\ f.present = p.present
    /\ f.mic_rms = p.mic_rms
    /\ f.noise_rms = p.noise_rms
    /\ f.crest = p.crest
    /\ f.bandpower = p.bandpower
    /\ f.dir_local = p.dir_local
    /\ f.dir_conf = p.dir_conf
    /\ p.extra # <<"None">> =>
          \A i \in 1..Len(p.extra[2]):
              /\ HasKey(f.extra[2], p.extra[2][i][1])
              /\ DictGet(f.extra[2], p.extra[2][i][1]) = p.extra[2][i][2]

C6_RoundTrip ==
    (rx.kind = "packet" /\ net = <<>>) =>
        (rx.out.stored /\ C6_SameFields(rx.out.frame, Packets[rx.pkt]))

\* What does hold: the round trip of every packet whose extra has no key
\* that is also a field of the record.
C6_Clashes(p) ==
    /\ p.extra # <<"None">>
    /\ \E i \in 1..Len(p.extra[2]): HasKey(asdict(p)[2], p.extra[2][i][1])

C6_RoundTripWithoutClash ==
    (rx.kind = "packet" /\ net = <<>> /\ ~C6_Clashes(Packets[rx.pkt])) =>
        (rx.out.stored /\ C6_SameFields(rx.out.frame, Packets[rx.pkt]))

\* C7: a packet with one bit of its payload portion inverted is rejected
\* by parse_packet with a CRC mismatch, whichever bit it is, and the store
\* is left as it was; so every frame in the store is that of a packet as
\* it was sent.
C7_Rejected ==
    (rx.kind = "flipped" /\ net # <<>> /\ net' = <<>>) =>
        /\ rx'.out = Dropped("ValueError", "Invalid packet: CRC mismatch")
        /\ nodes' = nodes

C7_StoreClean ==
    \A n \in DOMAIN nodes:
        \E k \in FlipPackets: nodes[n].last_frame.extra = Merged(Packets[k])

C7_BitFlipRejected == []C7_StoreClean /\ [][C7_Rejected]_vars

\* C7's case: a packet with an inverted bit has been delivered and rejected
\* for its CRC, while the store holds a frame.
C7_Witness ==
    /\ rx.kind = "flipped"
    /\ net = <<>>
    /\ rx.out.msg = "Invalid packet: CRC mismatch"
    /\ DOMAIN nodes # {}

\* C8: a datagram from to_payload is the serialized record, one 0x7C byte,
\* and the 8 lowercase hex digits of the CRC32 of the bytes before that
\* byte; those bytes are the record with the items of extra merged in;
\* and parse_packet, which splits at the last 0x7C, returns that record,
\* also when the payload holds 0x7C bytes of its own.
C8_Record(decoded, p) ==
    /\ decoded[1] = "dict"
    /\ \A i \in 1..Len(asdict(p)[2]): HasKey(decoded[2], asdict(p)[2][i][1])
    /\ (p.extra # <<"None">> /\ p.extra # <<"dict", <<>>>>) =>
          \A i \in 1..Len(p.extra[2]):
              /\ HasKey(decoded[2], p.extra[2][i][1])
              /\ DictGet(decoded[2], p.extra[2][i][1]) = p.extra[2][i][2]

C8_Parsed(r, payload, p) ==
    /\ r.ok
    /\ r.decoded = JsonLoads(Utf8Decode(payload)).val
    /\ C8_Record(r.decoded, p)

C8_Framed(d, p) ==
    /\ Len(d) >= 9
    /\ d[Len(d) - 8] = 124
    /\ \A i \in (Len(d) - 7)..Len(d): d[i] \in (48..57) \cup (97..102)
    /\ SubSeq(d, Len(d) - 7, Len(d)) = Hex8(crc32(SubSeq(d, 1, Len(d) - 9)))
    /\ SubSeq(d, 1, Len(d) - 9)
          = Serialized(JsonLoads(Utf8Decode(SubSeq(d, 1, Len(d) - 9))).val)
    /\ C8_Parsed(parse_packet(d), SubSeq(d, 1, Len(d) - 9), p)

C8_WireFraming ==
    (rx.kind = "packet" /\ net # <<>>) => C8_Framed(net[1], Packets[rx.pkt])

\* C8's case: a packet in flight whose payload holds a 0x7C byte.
C8_Witness ==
    /\ rx.kind = "packet"
    /\ net # <<>>
    /\ \E i \in 1..(Len(net[1]) - 9): net[1][i] = 124
    /\ parse_packet(net[1]).ok

(***************************************************************************)
(* The node's extractor, fed block by block (FeatureExtractor.push).       *)
(***************************************************************************)
\* The sample blocks of the model: n samples per channel, every channel of
\* a block at one amplitude.  With the initial noise level, a window full
\* of the second amplitude has its energy between lo and hi, and a window
\* full of the third has it above hi.
Amplitudes ==
    {[c \in 1..num_channels |-> v] : v \in {0, 160, 200}}
        \cup {[c \in 1..num_channels |-> IF c = 1 THEN 400 ELSE 0]}

\* Packet.from_frame (packets.py:35-52).  A packet of the node keeps the
\* units of the frame; supply_v and temp_c are 4.9 and 37.0 in tenths.
from_frame(node_id, seq, frame, supply_v, temp_c) ==
    Packet(node_id, seq, frame.timestamp * 1000000, frame.present,
           frame.mic_rms, frame.noise_rms, frame.crest, frame.bandpower,
           frame.dir_local, frame.dir_conf, supply_v, temp_c,
           <<"dict", << <<Key.total_energy, <<"float", frame.total_energy>> >> >> >>)

\* The packets of one turn of NodeAgent.run (node_agent.py:66-99) at time
\* `now`: one per frame, or a heartbeat if there is no frame and one is due.
RunPackets(frames, now, due, level) ==
    IF frames # <<>>
    THEN [k \in 1..Len(frames) |->
            from_frame(1, pushed.seq + k, frames[k], 49, 370)]
    ELSE IF due
    THEN << Packet(1, pushed.seq + 1, now * 1000000, FALSE,
                   [c \in 1..num_channels |-> 0], level,
                   [c \in 1..num_channels |-> 0], <<0, 0>>, <<0, 0, 0>>, 0,
                   49, 370,
                   <<"dict", << <<Key.heartbeat, <<"bool", TRUE>> >> >> >>) >>
    ELSE <<>>

\* A seq that advances for the packets that went out only: not what the
\* code does, and C26_SeqIncreasing tells the two apart.
SeqAfter_sent_only(seq, packets, failing) ==
    IF failing THEN seq ELSE seq + Len(packets)

\* self.seq after a turn: `self.seq += 1` for every packet built, before
\* _send is called (node_agent.py:70, 82).
SeqAfter(seq, packets, failing) == seq + Len(packets)

\* _send for the packets of a turn: an OSError of sendto is logged and the
\* packet is not sent (node_agent.py:104-115).  `failing`: sendto raises
\* during this turn.
_send(packets, failing) == IF failing THEN <<>> ELSE packets

\* What a turn of NodeAgent.run with a block of n samples leaves behind:
\* the extractor, the agent's seq and the packets it sent, and for stating
\* the claims the frames the push returned, the level, last_present and
\* pending it started from, and the samples pushed and frames returned so
\* far.  A RuntimeError of push ends the turn with nothing sent.
Pushed(n, due, failing, r) ==
    LET frames == IF r.raised THEN <<>> ELSE r.frames
        packets == IF r.raised THEN <<>>
                   ELSE RunPackets(frames, pushed.count + 1, due, r.fe.level)
    IN /\ fe' = r.fe
       /\ pushed' = [count |-> pushed.count + 1,
                     seq |-> SeqAfter(pushed.seq, packets, failing),
                     seqs |-> pushed.seqs \o [k \in 1..Len(packets) |->
                                                packets[k].seq],
                     sent |-> _send(packets, failing),
                     lost |-> pushed.lost \/ pushed.sent # pushed.packets,
                     packets |-> packets,
                     frames |-> frames,
                     raised |-> r.raised,
                     level |-> fe.level,
                     last_present |-> fe.last_present,
                     n |-> n,
                     pending |-> fe.pending,
                     samples |-> pushed.samples + n,
                     emitted |-> pushed.emitted + Len(frames)]

\* One turn of NodeAgent.run: block = self.sampler.read_block(...);
\* frames = self.extractor.push(block); the packets.  The block has the
\* same amplitude on every sample, one of `amplitudes`; sendto fails in
\* the turn or not, as `failings` allows.
Run(amplitudes, failings) ==
    /\ pushed.count < MaxPushes
    /\ \E n \in 0..MaxBlock, a \in amplitudes, due \in BOOLEAN, failing \in failings:
          \* whether a heartbeat is due matters only if no frame comes back,
          \* and whether sendto fails only if there is a packet
          /\ fe.pending + n >= frame_hop => ~due
          /\ (fe.pending + n < frame_hop /\ ~due) => ~failing
          /\ Pushed(n, due, failing,
                    push(fe, pushed.count + 1,
                         [c \in 1..num_channels |-> [i \in 1..n |-> a[c]]]))
    /\ UNCHANGED <<storeVars, engVars, rdVars, netVars, ringVars, searchVars,
                 otherVars, hist>>

\* The turns of a node whose sends succeed.
Push == Run(Amplitudes, {FALSE})

SpecDsp == Init /\ [][Push]_vars

\* C32: the two band powers of a frame are goertzel at 120 Hz and 240 Hz on
\* channel 0 of the window: an extractor whose window differs on the other
\* channels only computes the same bandpower.
C32_ChannelZeroOnly ==
    LET window == view(fe.buffer)
        others == {[c \in 1..num_channels |->
                       IF c = 1 THEN fe.buffer.buffer[1]
                       ELSE [i \in 1..window_samples |-> v + w * i]]:
                   v \in {0, 160, 400}, w \in {0, 7}}
    IN /\ \A k \in DOMAIN pushed.frames:
             pushed.frames[k].bandpower
             = <<goertzel(window[1], 120), goertzel(window[1], 240)>>
       /\ window[1] # <<>> =>
             \A b \in others:
                _emit_frame([fe EXCEPT !.buffer.buffer = b], 0).frame.bandpower
                = _emit_frame(fe, 0).frame.bandpower

\* A frame with power in a band, from a window whose channels differ.
C32_Witness ==
    /\ pushed.frames # <<>>
    /\ pushed.frames[1].bandpower # <<0, 0>>
    /\ view(fe.buffer)[1] # view(fe.buffer)[num_channels]
    /\ goertzel(view(fe.buffer)[num_channels], 120) # pushed.frames[1].bandpower[1]

LevelBefore(k) ==
    IF k = 1 THEN pushed.level ELSE pushed.frames[k - 1].noise_rms
PresentBefore(k) ==
    IF k = 1 THEN pushed.last_present ELSE pushed.frames[k - 1].present

\* C9: with noise_sum the sum of the noise level plus 1e-6, hi = 3.5 *
\* noise_sum and lo = 3.0 * noise_sum, every emitted frame has present =
\* (total_energy > hi) or (the previous frame's present and total_energy >
\* lo): present holds on a frame above lo that follows a present frame,
\* falls on a frame that is not above lo, and is not set from false by a
\* frame between lo and hi.
C9_Hysteresis ==
    \A k \in 1..Len(pushed.frames):
        LET f == pushed.frames[k]
            noise_sum == SumOver(LevelBefore(k), 1..num_channels) + 1
            above_hi == 2 * f.total_energy > 7 * noise_sum
            above_lo == f.total_energy > 3 * noise_sum
        IN /\ f.present = (above_hi \/ (PresentBefore(k) /\ above_lo))
           /\ PresentBefore(k) /\ above_lo => f.present
           /\ ~above_lo => ~f.present
           /\ ~PresentBefore(k) /\ above_lo /\ ~above_hi => ~f.present

\* A frame that follows a present frame has its energy above lo but not
\* above hi, and is present.
C9_Witness ==
    \E k \in 1..Len(pushed.frames):
        LET f == pushed.frames[k]
            noise_sum == SumOver(LevelBefore(k), 1..num_channels) + 1
        IN /\ PresentBefore(k)
           /\ f.total_energy > 3 * noise_sum
           /\ 2 * f.total_energy <= 7 * noise_sum
           /\ f.present

\* What a push does to the noise level, frame by frame.
C10_Push ==
    LET frames == pushed'.frames
        Before(k) == IF k = 1 THEN fe.level ELSE frames[k - 1].noise_rms
        WasPresent(k) == IF k = 1 THEN fe.last_present ELSE frames[k - 1].present
        noise_sum(k) == SumOver(Before(k), 1..num_channels) + 1
    IN /\ \A k \in 1..Len(frames):
            /\ frames[k].present => frames[k].noise_rms = Before(k)
            /\ ~frames[k].present =>
                   frames[k].noise_rms =
                       [c \in 1..num_channels |->
                           (99 * Before(k)[c] + frames[k].mic_rms[c]) \div 100]
            /\ frames[k].present =
                   \/ 2 * frames[k].total_energy > 7 * noise_sum(k)
                   \/ WasPresent(k) /\ frames[k].total_energy > 3 * noise_sum(k)
       /\ fe'.level = IF frames = <<>> THEN fe.level
                      ELSE frames[Len(frames)].noise_rms

\* C10: the noise level is updated once per emitted frame and only when the
\* frame's present is false; a present frame leaves the level, and with it
\* hi and lo, as they were; and the present of a frame is decided against
\* the level before that frame's own update.
C10_NoiseFrozen == [][pushed' # pushed => C10_Push]_vars

\* A push has returned two frames that are not present, and the level has
\* moved with each.
C10_Witness ==
    /\ Len(pushed.frames) = 2
    /\ ~pushed.frames[1].present
    /\ ~pushed.frames[2].present
    /\ pushed.frames[1].noise_rms # pushed.level
    /\ pushed.frames[2].noise_rms # pushed.frames[1].noise_rms

(***************************************************************************)
(* A RingBuffer on its own (dsp.py:27-58), appended to block by block.     *)
(***************************************************************************)
Appended(samples) ==
    /\ rb' = append(rb, samples)
    /\ ring' = [count |-> ring.count + 1,
                appended |-> [c \in 1..num_channels |->
                                ring.appended[c] \o samples[c]],
                n |-> Len(samples[1]),
                pos |-> rb.pos]

\* Sample k of all that is appended is 10 * k + c on channel c, so that no
\* two samples are equal and none is the zero the buffer starts with.
AppendBlock ==
    /\ ring.count < MaxAppends
    /\ \E n \in 0..MaxBlock:
          Appended([c \in 1..num_channels |->
                       [i \in 1..n |-> 10 * (Len(ring.appended[1]) + i) + c]])
    /\ UNCHANGED <<storeVars, engVars, rdVars, netVars, fe, pushed, searchVars,
                 otherVars, hist>>

SpecRing == Init /\ [][AppendBlock]_vars

\* C11: view() has min(total samples appended, capacity) samples per
\* channel, and after appends of fewer than capacity samples in all it
\* returns those samples only.
C11_ViewLength ==
    \A c \in 1..num_channels:
        /\ Len(view(rb)[c]) = Min(Len(ring.appended[c]), window_samples)
        /\ Len(ring.appended[c]) < window_samples =>
               view(rb)[c] = ring.appended[c]

\* C12: once capacity samples have been appended, view() is the last
\* capacity samples of all that was appended, oldest first, whatever the
\* sizes of the blocks.
C12_ViewIsTail ==
    \A c \in 1..num_channels:
        Len(ring.appended[c]) >= window_samples =>
            view(rb)[c] = SubSeq(ring.appended[c],
                                 Len(ring.appended[c]) - window_samples + 1,
                                 Len(ring.appended[c]))

\* A block shorter than the capacity has crossed the physical end of a
\* buffer that held capacity samples already.
C12_Witness ==
    /\ Len(ring.appended[1]) - ring.n >= window_samples
    /\ ring.n < window_samples
    /\ ring.pos + ring.n > window_samples

\* C13: a push returns floor((pending before + n) / frame_hop) frames and
\* leaves 0 <= pending < frame_hop, and the frames returned by all pushes
\* so far number floor(samples pushed so far / frame_hop).
C13_OneFramePerHop ==
    /\ Len(pushed.frames) = (pushed.pending + pushed.n) \div frame_hop
    /\ pushed.emitted = pushed.samples \div frame_hop
    /\ 0 <= fe.pending
    /\ fe.pending < frame_hop
    /\ ~pushed.raised

\* A push that found a sample pending has returned three frames.
C13_Witness ==
    /\ pushed.pending > 0
    /\ Len(pushed.frames) = 3

\* C14: every frame of the extractor and every packet of the agent, the
\* heartbeat among them, has dir_conf = 0 exactly if dir_local is the zero
\* vector: with weights all zero once negatives are clamped, or with a
\* weighted sum of magnitude zero, the estimate is (zero vector, 0), and
\* otherwise a direction that is not zero with confidence
\* min(sum of weights, 1.0) > 0.
C14_ZeroTogether ==
    /\ \A k \in 1..Len(pushed.frames):
          LET f == pushed.frames[k]
              w == [c \in 1..num_channels |->
                       Max(f.mic_rms[c] - LevelBefore(k)[c], 0)]
              sum == [i \in 1..3 |->
                        SumOver([c \in 1..num_channels |->
                                    w[c] * fe.vecs[c][i]], 1..num_channels)]
          IN /\ (f.dir_conf = 0) <=> (f.dir_local = ZeroVec)
             /\ (\A c \in 1..num_channels: w[c] = 0) \/ sum = ZeroVec
                    => f.dir_local = ZeroVec /\ f.dir_conf = 0
             /\ (\E c \in 1..num_channels: w[c] # 0) /\ sum # ZeroVec
                    => /\ f.dir_local # ZeroVec
                       /\ f.dir_conf = Min(SumOver(w, 1..num_channels), Million)
                       /\ f.dir_conf > 0
    /\ \A k \in 1..Len(pushed.packets):
          (pushed.packets[k].dir_conf = 0)
              <=> (pushed.packets[k].dir_local = ZeroVec)

\* A frame whose weights are not all zero and cancel in the sum.
C14_Witness ==
    \E k \in 1..Len(pushed.frames):
        /\ \E c \in 1..num_channels:
               pushed.frames[k].mic_rms[c] > LevelBefore(k)[c]
        /\ pushed.frames[k].dir_local = ZeroVec
        /\ pushed.frames[k].dir_conf = 0

(***************************************************************************)
(* The search on its own: _localize's calls of _grid_search and _refine    *)
(* (localization.py:64-76), for any snapshot and two geometries.           *)
(***************************************************************************)

\* A second deployment: both nodes on the far edge of a box that is two
\* grid steps deep in y (FusionConfig.grid_bounds, .grid_step, .nodes).
EdgeEngine ==
    [grid_bounds |-> [x |-> <<0, 8>>, y |-> <<0, 8>>, z |-> <<0, 4>>],
     grid_step |-> 4,
     node_positions |-> (1 :> <<0, 8, 0>>) @@ (2 :> <<8, 8, 0>>)]

\* The stores a snapshot is taken of: any of the nodes of the deployment
\* and one more, without a configured position, each with a last frame,
\* as (present, total_energy, dir_local), and online or not.
ProbeStores ==
    LET ProbeKinds ==
            FrameKinds \cup { <<TRUE, 2, ZeroVec>>, <<TRUE, 6, <<0, 1, 0>>>> }
        ProbeNodes == {1, 2, 3}
    IN
    UNION {[S -> {NodeState([present |-> k[1], total_energy |-> k[2],
                             dir_local |-> k[3]], 0, online):
                  k \in ProbeKinds, online \in BOOLEAN}]:
           S \in SUBSET ProbeNodes \ {{}}}

\* What _localize computes and what its calls return, for the snapshot
\* `frames` of the store `ns`: best is _grid_search's result, r is _refine's.
\* The tick is the first one, one second after the start.
Probed(self, ns, frames, normalized, best, r) ==
    [searched |-> TRUE, self |-> self, nodes |-> ns, frames |-> frames,
     normalized |-> normalized, best |-> best, refined |-> r.point,
     trace |-> r.trace,
     points |-> GridPoints(self.grid_bounds, self.grid_step),
     fusion |-> Located([normalized |-> normalized, best_err |-> best.err,
                         refined |-> r.point],
                        frames, 1, 1000, ZeroVec, ZeroVec).fusion]

Refining(self, ns, frames, normalized, best) ==
    Probed(self, ns, frames, normalized, best,
           _refine(self, best.point, frames, normalized))

\* _localize: nothing is searched for fewer than two frames or when no
\* frame is present.
Localize(self, ns, frames, normalized) ==
    IF Cardinality(DOMAIN frames) < 2 \/ present_nodes(frames) = {}
    THEN [NoProbe EXCEPT !.self = self, !.nodes = ns, !.frames = frames,
                         !.normalized = normalized]
    ELSE Refining(self, ns, frames, normalized,
                  _grid_search(self, frames, normalized))

\* One iteration of _run on a store (localization.py:56-57): get_frames,
\* then _localize.  The search keeps nothing from call to call, so one call
\* per behaviour covers them all.
Probe ==
    /\ probe = NoProbe
    /\ \E self \in {Engine, EdgeEngine}, ns \in ProbeStores:
          probe' = Localize(self, ns, get_frames(ns),
                            normalize_energies(
                                [n \in DOMAIN ns |->
                                    get_frames(ns)[n].total_energy]))
    /\ UNCHANGED <<storeVars, engVars, rdVars, netVars, dspVars, otherVars, hist>>

SpecSearch == Init /\ [][Probe]_vars

\* _grid_points on its own (localization.py:21-28), for a box lo..hi on
\* each axis and a positive step: the points _grid_search goes through.
GridProbe ==
    /\ probe = NoProbe
    /\ \E box \in [{"x", "y", "z"} -> {b \in (-1..MaxCoord) \X (-1..MaxCoord):
                                            b[1] <= 0 /\ b[1] <= b[2]}],
          step \in 1..MaxStep:
          probe' = [NoProbe EXCEPT
                      !.self = [grid_bounds |-> box, grid_step |-> step,
                                node_positions |-> <<>>],
                      !.points = GridPoints(box, step)]
    /\ UNCHANGED <<storeVars, engVars, rdVars, netVars, dspVars, otherVars, hist>>

SpecGrid == Init /\ [][GridProbe]_vars

\* C31: every candidate point of the grid search lies inside the configured
\* box, lo <= coordinate <= hi on each of the three axes.
C31_InsideBox ==
    \A i \in DOMAIN probe.points:
        /\ probe.self.grid_bounds.x[1] <= probe.points[i][1]
        /\ probe.points[i][1] <= probe.self.grid_bounds.x[2]
        /\ probe.self.grid_bounds.y[1] <= probe.points[i][2]
        /\ probe.points[i][2] <= probe.self.grid_bounds.y[2]
        /\ probe.self.grid_bounds.z[1] <= probe.points[i][3]
        /\ probe.points[i][3] <= probe.self.grid_bounds.z[2]

\* C17: the grid is enumerated in ascending order with x outermost, y in
\* the middle and z innermost; _grid_search returns the first candidate of
\* that order whose cost is the minimum over all candidates, and the best
\* cost it returns is that minimum.
C17_FirstMinimum ==
    probe.searched =>
        LET points == GridPoints(probe.self.grid_bounds, probe.self.grid_step)
            cost == [i \in DOMAIN points |->
                        _point_error(probe.self, points[i], probe.frames,
                                     probe.normalized)]
            Before(p, q) == \/ p[1] < q[1]
                            \/ p[1] = q[1] /\ p[2] < q[2]
                            \/ p[1] = q[1] /\ p[2] = q[2] /\ p[3] < q[3]
        IN /\ \A i, j \in DOMAIN points: i < j => Before(points[i], points[j])
           /\ \E i \in DOMAIN points:
                 /\ probe.best = [point |-> points[i], err |-> cost[i]]
                 /\ \A j \in DOMAIN points:
                       /\ cost[j] >= cost[i]
                       /\ j < i => cost[j] > cost[i]

\* A search whose minimum is reached by a later candidate as well.
C17_Witness ==
    /\ probe.searched
    /\ \E p \in {GridPoints(probe.self.grid_bounds, probe.self.grid_step)[i]:
                  i \in DOMAIN GridPoints(probe.self.grid_bounds,
                                          probe.self.grid_step)}:
          /\ p # probe.best.point
          /\ _point_error(probe.self, p, probe.frames, probe.normalized)
             = probe.best.err

\* C18: refinement starts at the grid winner with step grid_step / 2 and
\* runs at most 10 rounds; each round tries -step then +step on x, then y,
\* then z, from the point as it is at that trial, and accepts a trial exactly
\* when its cost is strictly lower than that point's; a round without an
\* accepted move halves the step, and the procedure stops as soon as the
\* halved step is below 0.25 m (step below 2 quarter metres before the
\* halving), or after the 10th round.
C18_Refinement ==
    probe.searched =>
        LET trace == probe.trace
            rounds == Len(trace) \div 6
            cost(p) == _point_error(probe.self, p, probe.frames, probe.normalized)
            moved(r) == \E i \in (6 * r - 5)..(6 * r): trace[i].accepted
            step[r \in 1..10] ==
                IF r = 1 THEN probe.self.grid_step \div 2
                ELSE IF moved(r - 1) THEN step[r - 1] ELSE step[r - 1] \div 2
            axis(i) == ((i - 1) % 6) \div 2 + 1
            sign(i) == IF i % 2 = 1 THEN -1 ELSE 1
            after(i) == IF trace[i].accepted THEN trace[i].to ELSE trace[i].from
        IN /\ Len(trace) = 6 * rounds
           /\ rounds \in 1..10
           /\ trace[1].from = probe.best.point
           /\ \A i \in DOMAIN trace:
                 /\ i > 1 => trace[i].from = after(i - 1)
                 /\ trace[i].to
                    = [trace[i].from EXCEPT
                          ![axis(i)] = @ + sign(i) * step[(i + 5) \div 6]]
                 /\ trace[i].accepted <=> cost(trace[i].to) < cost(trace[i].from)
           /\ probe.refined = after(Len(trace))
           /\ \A r \in 1..(rounds - 1): moved(r) \/ step[r] >= 2
           /\ rounds = 10 \/ (~moved(rounds) /\ step[rounds] < 2)

\* A refinement that accepted a move, then halved its step and stopped
\* before the 10th round.
C18_Witness ==
    /\ probe.searched
    /\ probe.refined # probe.best.point
    /\ \E i \in DOMAIN probe.trace: i > 1 /\ probe.trace[i].accepted
    /\ Len(probe.trace) < 60

\* C36: refinement never makes the estimate worse: the cost of the point
\* _refine returns is at most the cost of the grid winner it started from,
\* and no trial along the way ends on a costlier point than it began on.
C36_NeverWorse ==
    probe.searched =>
        LET cost(p) == _point_error(probe.self, p, probe.frames, probe.normalized)
        IN /\ cost(probe.refined) <= cost(probe.best.point)
           /\ cost(probe.best.point) = probe.best.err
           /\ \A i \in DOMAIN probe.trace:
                 cost(IF probe.trace[i].accepted THEN probe.trace[i].to
                      ELSE probe.trace[i].from)
                 <= cost(probe.trace[i].from)

\* A refinement that moved twice and ended on a point cheaper than the
\* grid winner.
C36_Witness ==
    /\ probe.searched
    /\ _point_error(probe.self, probe.refined, probe.frames, probe.normalized)
       < probe.best.err
    /\ Cardinality({i \in DOMAIN probe.trace: probe.trace[i].accepted}) >= 2

\* C19: two reporting nodes with equal total_energy, at least one of them
\* present: the refined estimate lies within one grid step of the point the
\* two node positions are symmetric about (their midpoint, which is inside
\* the grid box of both deployments).
C19_Symmetric ==
    /\ probe.searched
    /\ DOMAIN probe.frames = {1, 2}
    /\ probe.frames[1].total_energy = probe.frames[2].total_energy
    => LET twice == [k \in 1..3 |->
                        2 * probe.refined[k]
                        - (probe.self.node_positions[1][k]
                           + probe.self.node_positions[2][k])]
       IN Dot(twice, twice) <= 4 * probe.self.grid_step * probe.self.grid_step

\* C21: the FusionState of a detecting tick has exactly one node_details
\* entry per node of the store the snapshot was taken of, offline nodes
\* and nodes without a configured position included; the entry holds the
\* node's id, its normalized energy share, its last frame's dir_local as it
\* is, and online = TRUE.
C21_NodeDetails ==
    probe.searched =>
        /\ probe.fusion.present
        /\ Cardinality(probe.fusion.node_details) = Cardinality(DOMAIN probe.nodes)
        /\ probe.fusion.node_details
           = {[id |-> n,
               energy |-> normalize_energies(
                              [m \in DOMAIN probe.nodes |->
                                  probe.nodes[m].last_frame.total_energy])[n],
               dir |-> probe.nodes[n].last_frame.dir_local,
               online |-> TRUE]:
              n \in DOMAIN probe.nodes}

\* A detecting tick over a store with an offline node, a node that is not
\* present and a node without a configured position.
C21_Witness ==
    /\ probe.searched
    /\ \E n \in DOMAIN probe.nodes: ~probe.nodes[n].online
    /\ \E n \in DOMAIN probe.nodes: ~probe.nodes[n].last_frame.present
    /\ DOMAIN probe.nodes \ DOMAIN probe.self.node_positions # {}

(***************************************************************************)
(* Stopping the engine (localization.py:48-62): stop() sets the Event and  *)
(* returns; _run tests it at `while not self._stop.is_set()` only.         *)
(***************************************************************************)

\* stop(): self._stop.set(), and the call returns.
Stop ==
    /\ ~stop.set
    /\ stop' = [set |-> TRUE, returned |-> TRUE, pc |-> eng_pc,
                fusion |-> fusion_state, frames |-> eng_frames,
                state |-> eng_state, heap |-> Len(heap)]
    /\ UNCHANGED <<storeVars, engVars, rdVars, netVars, dspVars, searchVars,
                   loopVars, samplerVars, calVars, snapVars, hist>>

\* A loop that gives up wherever it is: not what the code does, and
\* C23_Cooperative tells the two apart.
EngExit_anywhere ==
    /\ eng_pc # "exited"
    /\ stop.set
    /\ eng_pc' = "exited"
    /\ UNCHANGED <<eng_frames, eng_state, last_position, velocity, ticks>>
    /\ UNCHANGED <<storeVars, rdVars, netVars, hist, dspVars, searchVars, otherVars>>

\* `while not self._stop.is_set()` finds the flag set: _run returns.
EngExit ==
    /\ eng_pc = "idle"
    /\ stop.set
    /\ eng_pc' = "exited"
    /\ UNCHANGED <<eng_frames, eng_state, last_position, velocity, ticks>>
    /\ UNCHANGED <<storeVars, rdVars, netVars, hist, dspVars, searchVars, otherVars>>

\* The steps of the engine thread.
EngineThread ==
    \/ EngGetFrames
    \/ EngSkip
    \/ EngSilentGet
    \/ EngSilentPresent
    \/ EngSilentConfidence
    \/ EngDetect
    \/ EngPublish
    \/ EngExit

\* The receiver while the engine is being stopped: frames of either node,
\* present or not.
NextStop ==
    \/ Receive(EngineNodes, {1}, PresenceKinds)
    \/ EngineThread
    \/ Stop

\* The engine thread keeps being scheduled: its sleeps are finite and
\* none of its steps blocks.
SpecStop == Init /\ [][NextStop]_vars /\ WF_vars(EngineThread)

\* C23: the stop flag is honoured at the top of the loop only: _run returns
\* from there and from nowhere else; a tick that had started when stop()
\* was called completes, and a detecting one still publishes its
\* FusionState; once the loop has seen the flag no tick starts and nothing
\* is published; and after stop() the loop eventually exits.
C23_Cooperative ==
    /\ [][eng_pc # "exited" /\ eng_pc' = "exited" => eng_pc = "idle" /\ stop.set]_vars
    /\ [][eng_pc = "exited" =>
            /\ eng_pc' = "exited"
            /\ ticks' = ticks
            /\ fusion_state' = fusion_state
            /\ heap' = heap]_vars
    /\ [](eng_pc = "exited" =>
            /\ stop.pc = "publish" => fusion_state = stop.state
            /\ (/\ stop.pc = "localize"
                /\ Cardinality(DOMAIN stop.frames) >= 2
                /\ present_nodes(stop.frames) # {})
               => /\ fusion_state = stop.heap + 1
                  /\ heap[fusion_state].present
                  /\ {d.id: d \in heap[fusion_state].node_details}
                     = DOMAIN stop.frames)
    /\ stop.set ~> (eng_pc = "exited")

\* stop() was called while a detecting tick was before its search; the tick
\* has published its FusionState and the loop has exited.
C23_Witness ==
    /\ stop.set
    /\ stop.pc = "localize"
    /\ eng_pc = "exited"
    /\ fusion_state # stop.fusion
    /\ fusion_state = Len(heap)
    /\ heap[fusion_state].present

\* C24: stop() does not return while the loop is still running, so after
\* stop() has returned the engine publishes no further FusionState.
C24_StopWaits ==
    [][stop.returned => fusion_state' = fusion_state]_vars

(***************************************************************************)
(* The cadence of _run (localization.py:51-62), on its own.  Times are in  *)
(* half periods.  No frame arrives here, so every tick is the tick of an   *)
(* empty snapshot: _localize returns None and nothing is published.        *)
(***************************************************************************)

\* period = 1.0 / localization_rate_hz, in half periods.
period == 2

\* A deadline taken from the clock: not what the code does, and
\* C30_AccumulatedDeadline tells the two apart.
Deadline_rebased(next_time, now) == now + period

\* next_time += period
Deadline(next_time, now) == next_time + period

\* period = ...; next_time = time.time(): the thread starts at some time.
LoopEnter ==
    /\ loop.pc = "new"
    /\ \E t \in 0..1:
          loop' = [loop EXCEPT !.pc = "top", !.now = t, !.t0 = t, !.next_time = t,
                               !.starts = <<t>>]
    /\ UNCHANGED <<storeVars, engVars, rdVars, netVars, dspVars, searchVars,
                   stopVars, samplerVars, calVars, snapVars, hist>>

\* One iteration up to the sleep: start = time.time(), get_frames,
\* _localize (None for fewer than 2 frames), next_time += period,
\* sleep = max(0.0, next_time - time.time()).  The second time.time()
\* reads d half periods more than the first.
Iterate ==
    /\ loop.pc = "top"
    /\ loop.k < MaxIter
    /\ Cardinality(DOMAIN get_frames(nodes)) < 2
    /\ \E d \in 0..MaxDur:
          loop' = [loop EXCEPT
                      !.pc = "sleep", !.k = @ + 1, !.now = @ + d,
                      !.next_time = Deadline(loop.next_time, loop.now + d),
                      !.sleep = Max(0, Deadline(loop.next_time, loop.now + d)
                                       - (loop.now + d)),
                      !.took = Append(@, d),
                      !.sleeps = Append(@, Max(0, Deadline(loop.next_time,
                                                           loop.now + d)
                                                  - (loop.now + d)))]
    /\ UNCHANGED <<storeVars, engVars, rdVars, netVars, dspVars, searchVars,
                   stopVars, samplerVars, calVars, snapVars, hist>>

\* time.sleep(sleep): at least `sleep`, here up to one half period more;
\* then the flag test and the next start = time.time().
Sleep ==
    /\ loop.pc = "sleep"
    /\ \E over \in 0..1:
          loop' = [loop EXCEPT !.pc = "top", !.now = @ + loop.sleep + over,
                               !.starts = Append(@, loop.now + loop.sleep + over)]
    /\ UNCHANGED <<storeVars, engVars, rdVars, netVars, dspVars, searchVars,
                   stopVars, samplerVars, calVars, snapVars, hist>>

NextLoop ==
    \/ LoopEnter
    \/ Iterate
    \/ Sleep

SpecLoop == Init /\ [][NextLoop]_vars

\* C22: after a tick that took longer than the period, the next tick runs
\* at once and no further tick runs back-to-back: a tick shorter than the
\* period that follows an overrunning tick is followed by a sleep.
C22_NoBurst ==
    \A j \in 1..(Len(loop.took) - 1):
        loop.took[j] > period /\ loop.took[j + 1] < period
            => loop.sleeps[j + 1] > 0

\* C30: after the k-th iteration next_time is t0 + k * period whatever the
\* ticks took; the sleep is max(0, next_time - now), never negative; and
\* tick k + 1 does not start before t0 + k * period.
C30_AccumulatedDeadline ==
    loop.pc # "new" =>
        /\ loop.next_time = loop.t0 + loop.k * period
        /\ loop.pc = "sleep" =>
              /\ loop.sleep >= 0
              /\ loop.sleep = IF loop.next_time > loop.now
                              THEN loop.next_time - loop.now ELSE 0
        /\ \A i \in DOMAIN loop.starts:
              loop.starts[i] >= loop.t0 + (i - 1) * period

\* Three ticks of different lengths, one of them longer than the period,
\* and a sleep that is being waited for.
C30_Witness ==
    /\ loop.pc = "sleep"
    /\ loop.k = 3
    /\ loop.sleep > 0
    /\ loop.t0 > 0
    /\ \E j \in DOMAIN loop.took: loop.took[j] > period
    /\ \E j \in DOMAIN loop.took: loop.took[j] < period

(***************************************************************************)
(* ContinuousSampler (ads_sampler.py:117-151).  A list is an object: the   *)
(* queue is object 1 of sampler.lists, and pop_blocks returns a new one.   *)
(* Block k is the k-th block read.                                         *)
(***************************************************************************)

\* block = self._sampler.read_block(...)
SamplerRead ==
    /\ sampler.run_pc = "top"
    /\ sampler.reads < MaxReads
    /\ sampler' = [sampler EXCEPT !.run_pc = "append", !.reads = @ + 1,
                                  !.block = sampler.reads + 1]
    /\ UNCHANGED <<storeVars, engVars, rdVars, netVars, dspVars, searchVars,
                   loopVars, stopVars, calVars, snapVars, hist>>

\* An append that does not take the lock: not what the code does, and
\* C25_HandOff tells the two apart.
SamplerAppend_unlocked ==
    /\ sampler.run_pc = "append"
    /\ sampler' = [sampler EXCEPT !.run_pc = "top",
                                  !.lists[1] = Append(@, sampler.block)]
    /\ UNCHANGED <<storeVars, engVars, rdVars, netVars, dspVars, searchVars,
                   loopVars, stopVars, calVars, snapVars, hist>>

\* with self._lock: self._queue.append(block)
SamplerAppend ==
    /\ sampler.run_pc = "append"
    /\ sampler.lock = ""
    /\ sampler' = [sampler EXCEPT !.run_pc = "top",
                                  !.lists[1] = Append(@, sampler.block)]
    /\ UNCHANGED <<storeVars, engVars, rdVars, netVars, dspVars, searchVars,
                   loopVars, stopVars, calVars, snapVars, hist>>

\* pop_blocks: with self._lock: blocks = list(self._queue)
PopCopy ==
    /\ sampler.pop_pc = "idle"
    /\ sampler.pops < MaxPops
    /\ sampler.lock = ""
    /\ sampler' = [sampler EXCEPT !.lock = "pop", !.pop_pc = "clear",
                                  !.lists = Append(@, sampler.lists[1]),
                                  !.blocks = Len(sampler.lists) + 1]
    /\ UNCHANGED <<storeVars, engVars, rdVars, netVars, dspVars, searchVars,
                   loopVars, stopVars, calVars, snapVars, hist>>

\* self._queue.clear(), and the lock is released.
PopClear ==
    /\ sampler.pop_pc = "clear"
    /\ sampler' = [sampler EXCEPT !.lock = "", !.pop_pc = "return",
                                  !.lists[1] = <<>>]
    /\ UNCHANGED <<storeVars, engVars, rdVars, netVars, dspVars, searchVars,
                   loopVars, stopVars, calVars, snapVars, hist>>

\* return blocks: returned keeps the object and what it held then.
PopReturn ==
    /\ sampler.pop_pc = "return"
    /\ sampler' = [sampler EXCEPT
                      !.pop_pc = "idle", !.pops = @ + 1, !.blocks = 0,
                      !.returned = Append(@, [list |-> sampler.blocks,
                                              held |-> sampler.lists[sampler.blocks]])]
    /\ UNCHANGED <<storeVars, engVars, rdVars, netVars, dspVars, searchVars,
                   loopVars, stopVars, calVars, snapVars, hist>>

NextSampler ==
    \/ SamplerRead
    \/ SamplerAppend
    \/ PopCopy
    \/ PopClear
    \/ PopReturn

SpecSampler == Init /\ [][NextSampler]_vars

\* C25: whatever the interleaving, the blocks that pop_blocks has returned
\* so far, call after call, followed by the blocks of a copy not returned
\* yet and by the blocks still queued, are the blocks queued so far, each
\* once and in the order they were read; and a returned list still holds
\* what it held when it was returned.
C25_HandOff ==
    LET RECURSIVE Flat(_)
        Flat(rs) == IF rs = <<>> THEN <<>> ELSE Head(rs).held \o Flat(Tail(rs))
        queued == IF sampler.run_pc = "append" THEN sampler.reads - 1
                  ELSE sampler.reads
        copied == IF sampler.pop_pc = "return" THEN sampler.lists[sampler.blocks]
                  ELSE <<>>
    IN /\ Flat(sampler.returned) \o copied \o sampler.lists[1]
          = [k \in 1..queued |-> k]
       /\ \A i \in DOMAIN sampler.returned:
             sampler.lists[sampler.returned[i].list] = sampler.returned[i].held

\* Two calls have returned blocks, another block is queued and one more
\* has been read and is about to be appended.
C25_Witness ==
    /\ Len(sampler.returned) >= 2
    /\ \A i \in 1..2: sampler.returned[i].held # <<>>
    /\ sampler.lists[1] # <<>>
    /\ sampler.run_pc = "append"

\* The turns of a node whose sends may fail with OSError, on silence or on
\* a loud first channel.
Turn ==
    Run({[c \in 1..num_channels |-> 0],
         [c \in 1..num_channels |-> IF c = 1 THEN 400 ELSE 0]}, BOOLEAN)

SpecAgent == Init /\ [][Turn]_vars

\* C26: a NodeAgent gives every packet it builds, frame packet or
\* heartbeat, the seq before it plus 1, starting at 1: the seqs of all the
\* packets built so far are 1, 2, 3, ... in the order they were built,
\* whether or not their sends failed, and the packets of one turn carry
\* consecutive seqs ending at self.seq.
C26_SeqIncreasing ==
    /\ pushed.seqs = [k \in 1..Len(pushed.seqs) |-> k]
    /\ pushed.seq = Len(pushed.seqs)
    /\ \A k \in 1..Len(pushed.packets):
          pushed.packets[k].seq = pushed.seq - Len(pushed.packets) + k

\* A heartbeat that is sent after a turn whose frame packets were built
\* and not sent.
C26_Witness ==
    /\ pushed.lost
    /\ pushed.frames = <<>>
    /\ Len(pushed.packets) = 1
    /\ pushed.sent = pushed.packets
    /\ pushed.seq >= 3

\* C27: no sequence of push calls, empty blocks included, reaches
\* _emit_frame with an empty window: push never raises.
C27_NeverInsufficient ==
    ~pushed.raised

\* A frame computed before the window has filled: fewer samples have been
\* pushed than the window holds, and an empty block has been pushed.
C27_Witness ==
    /\ pushed.emitted > 0
    /\ pushed.samples < window_samples
    /\ pushed.n = 0

(***************************************************************************)
(* get_frames in steps (state_store.py:54-56): the lock is taken, the dict *)
(* comprehension copies one item of self._nodes after the other, the lock  *)
(* is released and the dict returned.  update_frame and mark_offline take  *)
(* the same lock for all they do (49-53, 58-63).                           *)
(***************************************************************************)

\* get_frames is called and gets the lock.
GetFramesEnter ==
    /\ snap.pc = "idle"
    /\ snap.lock = ""
    /\ snap.gets < MaxGets
    /\ snap' = [snap EXCEPT !.lock = "get", !.pc = "copy",
                            !.todo = DOMAIN nodes, !.acc = <<>>,
                            !.at = get_frames(nodes)]
    /\ UNCHANGED <<storeVars, engVars, rdVars, netVars, dspVars, searchVars,
                   loopVars, stopVars, samplerVars, calVars, hist>>

\* node_id: state.last_frame for the next item, if state.last_frame.
GetFramesItem ==
    /\ snap.pc = "copy"
    /\ \E n \in snap.todo:
          snap' = [snap EXCEPT !.todo = @ \ {n},
                              !.acc = (n :> nodes[n].last_frame) @@ @]
    /\ UNCHANGED <<storeVars, engVars, rdVars, netVars, dspVars, searchVars,
                   loopVars, stopVars, samplerVars, calVars, hist>>

\* The lock is released and the new dict returned.
GetFramesReturn ==
    /\ snap.pc = "copy"
    /\ snap.todo = {}
    /\ snap' = [snap EXCEPT !.lock = "", !.pc = "idle", !.have = TRUE,
                            !.ret = snap.acc, !.acc = <<>>, !.gets = @ + 1,
                            !.was = snap.at]
    /\ UNCHANGED <<storeVars, engVars, rdVars, netVars, dspVars, searchVars,
                   loopVars, stopVars, samplerVars, calVars, hist>>

\* An update_frame that does not take the lock: not what the code does,
\* and C29_Snapshot tells the two apart.
SnapUpdate_unlocked ==
    /\ \E n \in EngineNodes, s \in 1..MaxSeq:
          nodes' = update_frame(nodes, InputFrame(n, s, 0, <<TRUE, 6, ZeroVec>>),
                                clock)
    /\ UNCHANGED <<fusion_state, heap, clock>>
    /\ UNCHANGED <<engVars, rdVars, netVars, dspVars, searchVars, otherVars, hist>>

\* update_frame, with the lock.
SnapUpdate ==
    /\ snap.lock = ""
    /\ \E n \in EngineNodes, s \in 1..MaxSeq:
          nodes' = update_frame(nodes, InputFrame(n, s, 0, <<TRUE, 6, ZeroVec>>),
                                clock)
    /\ UNCHANGED <<fusion_state, heap, clock>>
    /\ UNCHANGED <<engVars, rdVars, netVars, dspVars, searchVars, otherVars, hist>>

\* mark_offline, with the lock, at a time when every node has timed out.
SnapSweep ==
    /\ snap.lock = ""
    /\ nodes' = mark_offline(nodes, clock + OfflineTimeout + 1, OfflineTimeout)
    /\ UNCHANGED <<fusion_state, heap, clock>>
    /\ UNCHANGED <<engVars, rdVars, netVars, dspVars, searchVars, otherVars, hist>>

NextSnap ==
    \/ GetFramesEnter
    \/ GetFramesItem
    \/ GetFramesReturn
    \/ SnapUpdate
    \/ SnapSweep

SpecSnap == Init /\ [][NextSnap]_vars

\* C29: the dict get_frames returns is node_id -> last_frame of the map as
\* it was at one instant of the call (the instant the lock was taken, and
\* the map has not changed until the return), never a mix of two states
\* of the map; and later update_frame and mark_offline calls leave a
\* returned dict as it is.
C29_Snapshot ==
    /\ [](snap.have => snap.ret = snap.was)
    /\ [](snap.pc = "copy" => snap.at = get_frames(nodes))
    /\ [][snap.gets' = snap.gets => snap.ret' = snap.ret]_vars

\* A returned dict of two nodes that the map has moved on from: a node has
\* a newer frame and a node has been marked offline since.
C29_Witness ==
    /\ snap.have
    /\ snap.pc = "idle"
    /\ DOMAIN snap.ret = EngineNodes
    /\ \E n \in EngineNodes: nodes[n].last_frame # snap.ret[n]
    /\ \E n \in EngineNodes: ~nodes[n].online

(***************************************************************************)
(* CalibrationManager (calibration_manager.py).  self.jobs is cal.jobs     *)
(* with the dict's insertion order in cal.order; the manager thread is at  *)
(* cal.pc, with finalize_nodes in cal.todo.  None is <<>> and a value v    *)
(* is <<v>>; progress is per mille; times are seconds.                     *)
(***************************************************************************)
\* A start_job that replaces whatever job the node has: not what the code
\* does, and C39_OneActiveJob tells the two apart.
start_job_replacing(jobs, node_id, duration, now) ==
    IF duration <= 0 THEN [raised |-> TRUE, jobs |-> jobs]
    ELSE [raised |-> FALSE,
          jobs |-> (node_id :>
                      [node_id |-> node_id, duration |-> duration,
                       status |-> "running", started_at |-> now,
                       completed_at |-> <<>>, progress |-> 0, result |-> <<>>,
                       message |-> "Collecting noise samples",
                       sample_count |-> 0, last_seq |-> <<>>, samples |-> <<>>])
                   @@ jobs]

\* start_job(node_id, duration) at time `now`: [raised, jobs].  Both
\* refusals raise ValueError.
start_job(jobs, node_id, duration, now) ==
    IF duration <= 0 THEN [raised |-> TRUE, jobs |-> jobs]
    ELSE IF /\ node_id \in DOMAIN jobs
            /\ jobs[node_id].status \in {"running", "processing"}
    THEN [raised |-> TRUE, jobs |-> jobs]
    ELSE [raised |-> FALSE,
          jobs |-> (node_id :>
                      [node_id |-> node_id, duration |-> duration,
                       status |-> "running", started_at |-> now,
                       completed_at |-> <<>>, progress |-> 0, result |-> <<>>,
                       message |-> "Collecting noise samples",
                       sample_count |-> 0, last_seq |-> <<>>, samples |-> <<>>])
                   @@ jobs]

\* A _tick that samples the node's latest frame whether or not it has been
\* sampled before: not what the code does, and C40_Lifecycle tells the two
\* apart.
Collected_every_tick(job, frames, now) ==
    LET noise(frame) == IF frame.noise_rms # <<>> THEN frame.noise_rms
                        ELSE frame.mic_rms
        sampled ==
            IF /\ job.node_id \in DOMAIN frames
               /\ noise(frames[job.node_id]) # <<>>
            THEN [job EXCEPT !.samples = Append(@, noise(frames[job.node_id])),
                             !.sample_count = @ + 1,
                             !.last_seq = <<frames[job.node_id].seq>>]
            ELSE job
        elapsed == now - job.started_at
    IN IF job.status # "running" THEN job
       ELSE IF elapsed >= job.duration
       THEN [sampled EXCEPT !.progress = Min((elapsed * 1000) \div job.duration, 990),
                            !.status = "processing",
                            !.message = "Computing averages..."]
       ELSE [sampled EXCEPT !.progress = Min((elapsed * 1000) \div job.duration, 990)]

\* The body of _tick's loop for one job (calibration_manager.py:101-116).
Collected(job, frames, now) ==
    LET noise(frame) == IF frame.noise_rms # <<>> THEN frame.noise_rms
                        ELSE frame.mic_rms
        sampled ==
            IF /\ job.node_id \in DOMAIN frames
               /\ <<frames[job.node_id].seq>> # job.last_seq
               /\ noise(frames[job.node_id]) # <<>>
            THEN [job EXCEPT !.samples = Append(@, noise(frames[job.node_id])),
                             !.sample_count = @ + 1,
                             !.last_seq = <<frames[job.node_id].seq>>]
            ELSE job
        elapsed == now - job.started_at
    IN IF job.status # "running" THEN job
       ELSE IF elapsed >= job.duration
       THEN [sampled EXCEPT !.progress = Min((elapsed * 1000) \div job.duration, 990),
                            !.status = "processing",
                            !.message = "Computing averages..."]
       ELSE [sampled EXCEPT !.progress = Min((elapsed * 1000) \div job.duration, 990)]

\* _set_error
_set_error(jobs, node_id, message, now) ==
    IF node_id \notin DOMAIN jobs THEN jobs
    ELSE [jobs EXCEPT ![node_id] = [@ EXCEPT !.status = "failed",
                                             !.message = message,
                                             !.progress = 1000,
                                             !.completed_at = <<now>>]]

\* A finalization without the `except Exception` clause: not what the code
\* does, and C28_FailureIsAState tells the two apart.
Saved_uncaught(c, node_id, outcome, now) ==
    IF outcome = "ok"
    THEN [c EXCEPT !.saved = (node_id :> c.averages) @@ @,
                   !.jobs[node_id] = [@ EXCEPT !.status = "completed",
                                               !.result = <<c.averages>>,
                                               !.message = "Updated",
                                               !.progress = 1000,
                                               !.completed_at = <<now>>]]
    ELSE IF outcome = "not_found"
    THEN [c EXCEPT !.jobs = _set_error(c.jobs, node_id, "Config not found", now)]
    ELSE [c EXCEPT !.alive = FALSE]

\* The end of _finalize_job (calibration_manager.py:146-166): load_config
\* and dump_config succeed, or load_config raises FileNotFoundError, or
\* one of the two raises something else.
Saved(c, node_id, outcome, now) ==
    IF outcome = "ok"
    THEN [c EXCEPT !.saved = (node_id :> c.averages) @@ @,
                   !.jobs[node_id] = [@ EXCEPT !.status = "completed",
                                               !.result = <<c.averages>>,
                                               !.message = "Updated",
                                               !.progress = 1000,
                                               !.completed_at = <<now>>]]
    ELSE IF outcome = "not_found"
    THEN [c EXCEPT !.jobs = _set_error(c.jobs, node_id, "Config not found", now)]
    ELSE [c EXCEPT !.jobs = _set_error(c.jobs, node_id,
                                       "Failed to update config", now)]

\* The durations requests ask for, in seconds: none, and two seconds.
Durations == {0, 2}

\* A request POSTs a calibration: start_job.
StartJob ==
    /\ cal.started < MaxJobs
    /\ \E n \in {1, 2}, d \in Durations:
          cal' = [cal EXCEPT
                    !.started = @ + 1,
                    !.jobs = start_job(cal.jobs, n, d, clock).jobs,
                    !.order = IF n \in DOMAIN start_job(cal.jobs, n, d, clock).jobs
                                 /\ n \notin DOMAIN cal.jobs
                              THEN Append(@, n) ELSE @,
                    !.last = [op |-> IF start_job(cal.jobs, n, d, clock).raised
                                     THEN "start_job raised" ELSE "start_job",
                              node |-> n, now |-> clock, duration |-> d]]
    /\ UNCHANGED <<storeVars, engVars, rdVars, netVars, dspVars, searchVars,
                   loopVars, stopVars, samplerVars, snapVars, hist>>

\* _tick up to the end of its `with self._lock` block.
CalCollect ==
    /\ cal.alive
    /\ cal.pc = "idle"
    /\ LET jobs == [n \in DOMAIN cal.jobs |->
                      Collected(cal.jobs[n], get_frames(nodes), clock)]
           todo == SelectSeq(cal.order,
                             LAMBDA n: /\ cal.jobs[n].status = "running"
                                       /\ jobs[n].status = "processing")
       IN cal' = [cal EXCEPT !.jobs = jobs, !.todo = todo,
                             !.pc = IF todo = <<>> THEN "idle" ELSE "finalize",
                             !.last = [op |-> "tick", node |-> 0, now |-> clock]]
    /\ UNCHANGED <<storeVars, engVars, rdVars, netVars, dspVars, searchVars,
                   loopVars, stopVars, samplerVars, snapVars, hist>>

\* _finalize_job for the next of finalize_nodes, up to the averages: no
\* samples is _set_error; the averages are the rounded means per channel.
CalFinalize ==
    /\ cal.alive
    /\ cal.pc = "finalize"
    /\ LET n == Head(cal.todo)
           samples == cal.jobs[n].samples
           width == Max(0, Len(samples[1]))
           mean(i) ==
               LET with == {k \in DOMAIN samples: i <= Len(samples[k])}
               IN (2 * SumOver([k \in with |-> samples[k][i]], with)
                   + Cardinality(with)) \div (2 * Cardinality(with))
       IN IF samples = <<>>
          THEN cal' = [cal EXCEPT
                         !.jobs = _set_error(cal.jobs, n,
                                             "No samples collected from node", clock),
                         !.todo = Tail(@),
                         !.pc = IF Tail(cal.todo) = <<>> THEN "idle" ELSE "finalize",
                         !.last = [op |-> "no samples", node |-> n, now |-> clock]]
          ELSE cal' = [cal EXCEPT
                         !.averages = [i \in 1..width |-> mean(i)],
                         !.pc = "save",
                         !.last = [op |-> "averages", node |-> n, now |-> clock]]
    /\ UNCHANGED <<storeVars, engVars, rdVars, netVars, dspVars, searchVars,
                   loopVars, stopVars, samplerVars, snapVars, hist>>

\* load_config, dump_config and the job's last state.
CalSave ==
    /\ cal.alive
    /\ cal.pc = "save"
    /\ \E outcome \in {"ok", "not_found", "error"}:
          cal' = [Saved(cal, Head(cal.todo), outcome, clock) EXCEPT
                    !.todo = Tail(@),
                    !.averages = <<>>,
                    !.pc = IF Tail(cal.todo) = <<>> THEN "idle" ELSE "finalize",
                    !.last = [op |-> outcome, node |-> Head(cal.todo),
                              now |-> clock]]
    /\ UNCHANGED <<storeVars, engVars, rdVars, netVars, dspVars, searchVars,
                   loopVars, stopVars, samplerVars, snapVars, hist>>

\* Node 1 reports noise, its frames in order; node 2 has never reported.
CalReceive ==
    \E s \in 1..MaxSeq:
        /\ 1 \in DOMAIN nodes => nodes[1].last_frame.seq < s
        /\ Receive({1}, {s}, {<<FALSE, 2, ZeroVec>>})

\* _loop: the manager thread.
ManagerThread ==
    \/ CalCollect
    \/ CalFinalize
    \/ CalSave

\* The clock runs until a job of the longest duration that started after
\* time 0 can have elapsed.
NextCal ==
    \/ Advance(1 + CHOOSE d \in Durations: \A e \in Durations: e <= d)
    \/ CalReceive
    \/ StartJob
    \/ ManagerThread

\* The manager thread keeps being scheduled: _loop sleeps poll_interval
\* between ticks and none of its steps blocks for good.
SpecCal == Init /\ [][NextCal]_vars /\ WF_vars(ManagerThread)

\* C28: a job whose config load or save failed, or that collected no
\* samples, is in state "failed" with a message, progress 1.0 and a
\* completion time; the manager thread is alive and goes on with the rest
\* of its work; and no step of the manager changes the FrameStore or the
\* FusionState.
C28_FailureIsAState ==
    /\ [](cal.last.op \in {"not_found", "error", "no samples"} =>
            /\ cal.alive
            /\ cal.pc \in {"idle", "finalize"}
            /\ cal.jobs[cal.last.node].status = "failed"
            /\ cal.jobs[cal.last.node].message # ""
            /\ cal.jobs[cal.last.node].progress = 1000
            /\ cal.jobs[cal.last.node].completed_at = <<cal.last.now>>)
    /\ [](cal.alive)
    /\ [][cal' # cal => UNCHANGED storeVars]_vars

\* The config of node 1 could not be written, its job has failed, and the
\* job of node 2, in the same tick, is still to be finalized.
C28_Witness ==
    /\ cal.last.op = "error"
    /\ cal.last.node = 1
    /\ cal.jobs[1].status = "failed"
    /\ cal.pc = "finalize"
    /\ cal.todo = <<2>>
    /\ cal.jobs[2].status = "processing"

\* C39: per node at most one calibration job is active.  A start_job for
\* a node whose job is "running" or "processing", or with a duration that
\* is not positive, raises and leaves self.jobs as it was (no job is
\* created, and the existing job keeps its status, samples and start
\* time), wherever the manager thread is in its tick; so the jobs being
\* finalized are exactly the jobs in "processing".
C39_Refused ==
    cal'.started # cal.started =>
        LET n == cal'.last.node
            active == /\ n \in DOMAIN cal.jobs
                      /\ cal.jobs[n].status \in {"running", "processing"}
        IN IF active \/ cal'.last.duration <= 0
           THEN /\ cal'.last.op = "start_job raised"
                /\ cal'.jobs = cal.jobs
                /\ cal'.order = cal.order
                /\ cal'.todo = cal.todo
                /\ cal'.pc = cal.pc
           ELSE /\ cal'.last.op = "start_job"
                /\ cal'.jobs[n].status = "running"
                /\ cal'.jobs[n].samples = <<>>
                /\ \A m \in DOMAIN cal.jobs \ {n}: cal'.jobs[m] = cal.jobs[m]

C39_BeingFinalized ==
    \A n \in DOMAIN cal.jobs:
        cal.jobs[n].status = "processing" <=>
            \E i \in DOMAIN cal.todo: cal.todo[i] = n

C39_OneActiveJob == []C39_BeingFinalized /\ [][C39_Refused]_vars

\* The averages of node 1's job are computed and its config is about to be
\* written when a second start_job for node 1 is refused: the job is still
\* "processing", with its two samples.
C39_Witness ==
    /\ cal.last.op = "start_job raised"
    /\ cal.last.node = 1
    /\ cal.last.duration = 2
    /\ cal.pc = "save"
    /\ cal.jobs[1].status = "processing"
    /\ Len(cal.jobs[1].samples) = 2

\* C40: the status of a job only moves running -> processing -> completed
\* or failed.  Samples are collected only while the job is "running": at
\* most one per tick, and only when the node's latest frame has a seq that
\* is not the last one sampled.  A completed or failed job does not change
\* unless a start_job replaces it.  And with the manager thread ticking, a
\* running job whose duration has elapsed reaches completed or failed.
C40_Step ==
    \A n \in DOMAIN cal.jobs:
        LET old == cal.jobs[n]
            new == cal'.jobs[n]
            frames == get_frames(nodes)
        IN IF cal'.started # cal.started
           THEN \/ new = old
                \/ /\ old.status \in {"completed", "failed"}
                   /\ new.status = "running"
           ELSE /\ <<old.status, new.status>> \in
                      {<<"running", "running">>, <<"running", "processing">>,
                       <<"processing", "processing">>,
                       <<"processing", "completed">>, <<"processing", "failed">>,
                       <<"completed", "completed">>, <<"failed", "failed">>}
                /\ old.status \in {"completed", "failed"} => new = old
                /\ new.samples # old.samples =>
                      /\ old.status = "running"
                      /\ cal'.last.op = "tick"
                      /\ n \in DOMAIN frames
                      /\ <<frames[n].seq>> # old.last_seq
                      /\ new.last_seq = <<frames[n].seq>>
                      /\ new.samples = Append(old.samples, frames[n].noise_rms)
                      /\ new.sample_count = old.sample_count + 1

C40_Finishes ==
    \A n \in {1, 2}:
        (/\ n \in DOMAIN cal.jobs
         /\ cal.jobs[n].status = "running"
         /\ clock - cal.jobs[n].started_at >= cal.jobs[n].duration)
        ~> (/\ n \in DOMAIN cal.jobs
            /\ cal.jobs[n].status \in {"completed", "failed"})

C40_Lifecycle == [][C40_Step]_vars /\ C40_Finishes

\* The job of node 1 sampled the frames with seq 1 and seq 2, one per tick,
\* went through "processing" and is completed with the averages written.
C40_Witness ==
    /\ cal.last.op = "ok"
    /\ cal.last.node = 1
    /\ cal.jobs[1].status = "completed"
    /\ cal.jobs[1].sample_count = 2
    /\ cal.jobs[1].last_seq = <<2>>
    /\ 1 \in DOMAIN cal.saved

====
